---- MODULE Spec2Model ----
(***************************************************************************)
(* AnyScope: the screen-capture application (src/app.js) and its video     *)
(* scope library (src/scopes.js).                                          *)
(*                                                                         *)
(*   Spec       the application: startCapture / stopCapture, the analysis  *)
(*              loop (66 ms timeout, then animation frame), zone           *)
(*              selection, scope toggles.                                  *)
(*   ScopeSpec  VideoScopes.analyze applied to bounded frames: the pixel   *)
(*              scan of calculateScopeData and the intensity maps of the   *)
(*              waveform, parade and vectorscope renderers.                *)
(*   RepeatSpec calculateScopeData applied to a sequence of frames, with   *)
(*              the result of the first call remembered.                   *)
(*                                                                         *)
(* JavaScript numbers are IEEE-754 doubles.  Where the code floors a       *)
(* product of a quotient, Math.floor((a / b) * c), the quotient is rounded *)
(* to 53 bits before the multiplication, and the result can be one less    *)
(* than floor(a*c/b).  FloorMulDiv computes the double result with integer *)
(* arithmetic only.                                                        *)
(***************************************************************************)
EXTENDS Integers, Sequences, FiniteSets, TLC

(***************************************************************************)
(* Bounds of the model.                                                    *)
(***************************************************************************)
MaxWidth == 4      \* widest exhaustively enumerated frame
MaxHeight == 2     \* tallest exhaustively enumerated frame
MaxPixels == 4     \* most pixels of an exhaustively enumerated frame
MaxStreams == 2    \* streams getDisplayMedia hands out in one run
MaxStarts == 2     \* startCapture calls awaiting getDisplayMedia at once
MaxLoops == 2      \* pending continuations of the analysis loop at once

(***************************************************************************)
(* Program constants.                                                      *)
(***************************************************************************)
VectorSampleBudget == 50000   \* scopes.js:60
MaxAnalysisWidth == 320       \* app.js:358
MinZoneSize == 10             \* app.js:353
WaveformGain == 8             \* scopes.js:154
ParadeGain == 8               \* scopes.js:223
VectorscopeGain == 10         \* scopes.js:305
VectorscopeMargin == 20       \* scopes.js:259
HistogramBuckets == 256       \* scopes.js:53

\* A JavaScript value that may be null: None, or Some(v) holding v as its
\* only element.
None == <<>>
Some(v) == <<v>>

Max(a, b) == IF a >= b THEN a ELSE b
Min(a, b) == IF a <= b THEN a ELSE b

(***************************************************************************)
(* IEEE-754 double arithmetic, as integer arithmetic.                      *)
(***************************************************************************)
RECURSIVE Pow2(_)
Pow2(n) == IF n = 0 THEN 1 ELSE 2 * Pow2(n - 1)

\* least E with k <= 2^E  (k >= 1)
RECURSIVE CeilLog2From(_, _)
CeilLog2From(k, E) == IF Pow2(E) >= k THEN E ELSE CeilLog2From(k, E + 1)
CeilLog2(k) == CeilLog2From(k, 0)

\* greatest e with 2^e <= k  (k >= 1)
RECURSIVE FloorLog2From(_, _)
FloorLog2From(k, e) == IF Pow2(e + 1) > k THEN e ELSE FloorLog2From(k, e + 1)
FloorLog2(k) == FloorLog2From(k, 0)

\* 2^n mod b
RECURSIVE Pow2Mod(_, _)
Pow2Mod(n, b) == IF n = 0 THEN 1 % b ELSE (2 * Pow2Mod(n - 1, b)) % b

\* For 0 < a < b: the j >= 0 with 2^-(j+1) <= a/b < 2^-j, so that the double
\* nearest to a/b is m * 2^-(53+j) with 2^52 <= m < 2^53.
RECURSIVE BinadeFrom(_, _, _)
BinadeFrom(a, b, j) == IF a * Pow2(j + 1) >= b THEN j ELSE BinadeFrom(a, b, j + 1)
Binade(a, b) == BinadeFrom(a, b, 0)

\* The rounding error of the double quotient a / b, scaled: with q the double
\* nearest to a/b and s = 53 + Binade(a, b), QuotErr = a*2^s - b*q*2^s.
\* It is positive when q was rounded down, negative when rounded up, and 0
\* when a/b is a double.  (A tie would need b to divide a*2^(s+1) but not
\* a*2^s, which no b < 2^54 does.)
QuotErr(a, b) ==
    IF a = 0 \/ a % b = 0 THEN 0
    ELSE LET r == ((a % b) * Pow2Mod(53 + Binade(a, b), b)) % b
         IN  IF 2 * r < b THEN r ELSE r - b

\* The double product (a / b) * c against the integer K = a*c/b, when b divides
\* a*c: -1 when the double lies below K, 1 when above, 0 when it is K.
\* The exact product q*c is K - K*d/(a*2^s) with d = QuotErr(a, b); it rounds
\* to K unless it is more than half a unit in the last place away from K.
MulDivClass(a, b, c) ==
    LET K == (a * c) \div b
        d == QuotErr(a, b)
        j == Binade(a, b)
    IN  IF d = 0 \/ K = 0 THEN 0
        ELSE IF d > 0
             THEN IF 2 * K * d > a * Pow2(j + CeilLog2(K)) THEN -1 ELSE 0
             ELSE IF K * (0 - d) > a * Pow2(j + FloorLog2(K)) THEN 1 ELSE 0

\* Math.floor((a / b) * c) for integers 0 <= a <= b, b > 0, c >= 0.
FloorMulDiv(a, b, c) ==
    LET K == (a * c) \div b
    IN  IF (a * c) % b = 0 /\ MulDivClass(a, b, c) = -1 THEN K - 1 ELSE K

(***************************************************************************)
(* State.                                                                  *)
(***************************************************************************)
VARIABLES
    \* AnyScope (app.js)
    isCapturing,             \* this.isCapturing
    mediaStream,             \* this.mediaStream: a stream, or 0 for null
    srcObject,               \* this.video.srcObject: a stream, or 0 for null
    animationFrameId,        \* this.animationFrameId: a timeout handle, or 0 for null
    selectedZone,            \* this.selectedZone: None or Some([x, y, width, height])
    isSelecting,             \* this.isSelecting
    selectionStart,          \* this.selectionStart: None or Some([x, y])
    startButtonDisabled,     \* this.startButton.disabled
    stopButtonDisabled,      \* this.stopButton.disabled
    resetZoneButtonDisabled, \* this.resetZoneButton.disabled
    hidden,                  \* the scope containers carrying the class 'hidden'
    scopeCanvas,             \* per scope canvas: "blank", "black" or "drawn"
    \* the browser
    tracks,                  \* per stream, its track's readyState: "live" or "ended",
                             \* or "new" for a stream not handed out yet
    pendingStarts,           \* startCapture calls awaiting getDisplayMedia
    awaitingLoaded,          \* video.onloadeddata resumes a suspended startCapture
    videoReady,              \* video.readyState >= HAVE_CURRENT_DATA
    timers,                  \* pending 66 ms timeouts of the analysis loop
    frames,                  \* pending animation-frame callbacks for analyzeFrame
    cycle,                   \* what analyzeFrame did, when the last step ran it
    alerted,                 \* the last step ended in startCapture's catch block (alert)
    \* VideoScopes.analyze on bounded frames (ScopeSpec, RepeatSpec)
    imageData,        \* the ImageData last passed to analyze, or None
    analysis,         \* what calculateScopeData returned for it, or None
    first,            \* RepeatSpec: the first frame analysed, its result, and
                      \* whether another frame was analysed since
    largeFrame,       \* ScopeSpec: the size of the large frame to scan
    largeSampled,     \* ScopeSpec: how many of its pixels the scan sampled
    canvas,           \* the sizes of the scope canvases (set by the page)
    waveform,         \* what renderWaveform last drew
    parade,           \* what renderParade last drew, per channel
    vectorscope       \* what renderVectorscope last drew

appVars == <<isCapturing, mediaStream, srcObject, animationFrameId, selectedZone,
             isSelecting, selectionStart, startButtonDisabled, stopButtonDisabled,
             resetZoneButtonDisabled, hidden, scopeCanvas, tracks, pendingStarts,
             awaitingLoaded, videoReady, timers, frames, cycle, alerted>>

scopeVars == <<imageData, analysis, first, largeFrame, largeSampled,
               canvas, waveform, parade, vectorscope>>

vars == <<appVars, scopeVars>>

(***************************************************************************)
(* Pixels and frames.  A frame is an ImageData: data holds one {r, g, b}   *)
(* per pixel in raster order (the alpha byte data[i + 3] is never read).   *)
(***************************************************************************)
Black == [r |-> 0, g |-> 0, b |-> 0]
Red == [r |-> 255, g |-> 0, b |-> 0]
Gray == [r |-> 128, g |-> 128, b |-> 128]
Palette == {Black, Red, Gray}

Frame(d, w, h) == [data |-> d, width |-> w, height |-> h]

\* every frame over the palette with at most MaxPixels pixels
SmallSizes ==
    {s \in (1..MaxWidth) \X (1..MaxHeight) : s[1] * s[2] <= MaxPixels}
SmallFrames ==
    UNION {{Frame(d, s[1], s[2]) : d \in [1..(s[1] * s[2]) -> Palette]} : s \in SmallSizes}

Uniform(w, h, p) == Frame([i \in 1..(w * h) |-> p], w, h)
\* rows alternate p, q
Rows(w, h, p, q) ==
    Frame([i \in 1..(w * h) |-> IF ((i - 1) \div w) % 2 = 0 THEN p ELSE q], w, h)
\* columns cycle through p, q, u
Columns(w, h, p, q, u) ==
    Frame([i \in 1..(w * h) |->
              CASE ((i - 1) % w) % 3 = 0 -> p
                [] ((i - 1) % w) % 3 = 1 -> q
                [] OTHER -> u], w, h)

\* p everywhere but q at the first pixel
OneOff(w, h, p, q) == Frame([i \in 1..(w * h) |-> IF i = 1 THEN q ELSE p], w, h)

\* wider and taller frames, one per scenario
ScenarioFrames ==
    {Rows(4, 4, Red, Black), OneOff(2, 6, Gray, Red), Rows(3, 2, Gray, Red), Uniform(3, 2, Gray),
     Uniform(6, 3, [r |-> 200, g |-> 0, b |-> 0]),
     Columns(5, 2, Red, Gray, Black), Columns(7, 3, Black, Red, Gray),
     Columns(8, 2, Gray, Black, Red)}

Frames == SmallFrames \cup ScenarioFrames

(***************************************************************************)
(* ColorMath (scopes.js:70, 87-88).                                        *)
(***************************************************************************)
\* Math.round(0.2126 * r + 0.7152 * g + 0.0722 * b).  Math.round rounds a
\* half up.  The exact sum is s/10000 with s = 2126r + 7152g + 722b; the
\* double sum differs from it by less than 1e-12, which changes the rounding
\* only at a tie, s = 5000 (mod 10000).  Of the 3368 ties among the 8-bit
\* triples, the double sum is exactly the half (or above it) for 2599 and
\* falls below it for the 769 listed here, where Math.round gives one less.
TiesBelowHalf ==
    {<<0, 14, 76>>, <<0, 68, 12>>, <<0, 150, 100>>, <<0, 204, 36>>, <<1, 97, 165>>, <<1, 124, 133>>,
     <<1, 151, 101>>, <<1, 178, 69>>, <<2, 70, 14>>, <<2, 179, 70>>, <<2, 180, 254>>, <<2, 206, 38>>,
     <<2, 207, 222>>, <<2, 233, 6>>, <<2, 234, 190>>, <<3, 71, 15>>, <<3, 126, 135>>, <<3, 153, 103>>,
     <<3, 207, 39>>, <<3, 235, 191>>, <<4, 100, 168>>, <<4, 127, 136>>, <<4, 154, 104>>, <<4, 235, 8>>,
     <<5, 182, 73>>, <<5, 209, 41>>, <<5, 210, 225>>, <<5, 236, 9>>, <<5, 237, 193>>, <<6, 47, 50>>,
     <<6, 74, 18>>, <<6, 75, 202>>, <<6, 102, 170>>, <<6, 129, 138>>, <<6, 156, 106>>, <<6, 210, 42>>,
     <<6, 238, 194>>, <<7, 49, 235>>, <<7, 75, 19>>, <<7, 157, 107>>, <<7, 238, 11>>, <<8, 49, 52>>,
     <<8, 185, 76>>, <<8, 213, 228>>, <<8, 239, 12>>, <<8, 240, 196>>, <<9, 105, 173>>, <<9, 132, 141>>,
     <<9, 159, 109>>, <<9, 213, 45>>, <<9, 241, 197>>, <<10, 51, 54>>, <<10, 52, 238>>, <<10, 78, 22>>,
     <<10, 133, 142>>, <<10, 241, 14>>, <<12, 80, 24>>, <<12, 108, 176>>, <<12, 135, 144>>, <<12, 162, 112>>,
     <<12, 216, 48>>, <<12, 244, 200>>, <<13, 27, 89>>, <<13, 136, 145>>, <<13, 190, 81>>, <<13, 244, 17>>,
     <<14, 28, 90>>, <<14, 56, 242>>, <<14, 82, 26>>, <<14, 164, 114>>, <<15, 56, 59>>, <<15, 138, 147>>,
     <<15, 219, 51>>, <<15, 247, 203>>, <<16, 85, 212>>, <<16, 112, 180>>, <<16, 193, 84>>, <<16, 221, 236>>,
     <<16, 247, 20>>, <<17, 59, 245>>, <<17, 140, 149>>, <<17, 167, 117>>, <<17, 249, 205>>, <<18, 59, 62>>,
     <<18, 222, 54>>, <<18, 249, 22>>, <<18, 250, 206>>, <<19, 115, 183>>, <<19, 196, 87>>, <<19, 224, 239>>,
     <<19, 250, 23>>, <<20, 115, 0>>, <<20, 143, 152>>, <<20, 170, 120>>, <<20, 252, 208>>, <<21, 62, 65>>,
     <<21, 63, 249>>, <<21, 89, 33>>, <<21, 225, 57>>, <<21, 252, 25>>, <<21, 253, 209>>, <<22, 63, 66>>,
     <<22, 91, 218>>, <<22, 118, 186>>, <<22, 199, 90>>, <<22, 227, 242>>, <<22, 253, 26>>, <<23, 91, 35>>,
     <<23, 118, 3>>, <<23, 119, 187>>, <<23, 146, 155>>, <<23, 173, 123>>, <<23, 255, 211>>, <<24, 119, 4>>,
     <<24, 147, 156>>, <<24, 174, 124>>, <<24, 228, 60>>, <<24, 255, 28>>, <<25, 66, 69>>, <<25, 94, 221>>,
     <<25, 121, 189>>, <<25, 202, 93>>, <<25, 230, 245>>, <<27, 41, 103>>, <<27, 68, 71>>, <<27, 95, 39>>,
     <<27, 122, 7>>, <<27, 150, 159>>, <<27, 177, 127>>, <<27, 204, 95>>, <<27, 231, 63>>, <<28, 69, 72>>,
     <<28, 97, 224>>, <<28, 205, 96>>, <<28, 233, 248>>, <<29, 70, 73>>, <<30, 98, 42>>, <<30, 125, 10>>,
     <<30, 126, 194>>, <<30, 153, 162>>, <<30, 180, 130>>, <<31, 100, 227>>, <<31, 126, 11>>, <<31, 208, 99>>,
     <<31, 235, 67>>, <<31, 236, 251>>, <<33, 47, 109>>, <<33, 101, 45>>, <<33, 102, 229>>, <<33, 128, 13>>,
     <<33, 129, 197>>, <<34, 129, 14>>, <<34, 157, 166>>, <<34, 211, 102>>, <<34, 238, 70>>, <<34, 239, 254>>,
     <<36, 104, 48>>, <<36, 105, 232>>, <<36, 131, 16>>, <<36, 132, 200>>, <<37, 51, 113>>, <<37, 214, 105>>,
     <<37, 241, 73>>, <<38, 133, 18>>, <<39, 80, 83>>, <<39, 107, 51>>, <<39, 108, 235>>, <<39, 134, 19>>,
     <<39, 135, 203>>, <<40, 54, 116>>, <<40, 190, 140>>, <<40, 217, 108>>, <<40, 244, 76>>, <<41, 136, 21>>,
     <<42, 83, 86>>, <<42, 110, 54>>, <<42, 111, 238>>, <<42, 138, 206>>, <<43, 57, 119>>, <<43, 193, 143>>,
     <<43, 220, 111>>, <<43, 247, 79>>, <<44, 112, 56>>, <<44, 139, 24>>, <<44, 140, 208>>, <<44, 221, 112>>,
     <<45, 86, 89>>, <<45, 114, 241>>, <<45, 249, 81>>, <<46, 5, 2>>, <<46, 169, 178>>, <<46, 196, 146>>,
     <<46, 223, 114>>, <<46, 250, 82>>, <<47, 115, 59>>, <<47, 142, 27>>, <<47, 143, 211>>, <<47, 224, 115>>,
     <<48, 35, 156>>, <<48, 89, 92>>, <<48, 252, 84>>, <<49, 199, 149>>, <<49, 226, 117>>, <<50, 91, 94>>,
     <<50, 118, 62>>, <<50, 119, 246>>, <<50, 145, 30>>, <<50, 146, 214>>, <<50, 227, 118>>, <<51, 255, 87>>,
     <<52, 147, 32>>, <<53, 121, 65>>, <<53, 230, 121>>, <<54, 95, 98>>, <<54, 176, 2>>, <<54, 204, 154>>,
     <<55, 150, 35>>, <<55, 178, 187>>, <<56, 124, 68>>, <<56, 179, 188>>, <<56, 233, 124>>, <<57, 98, 101>>,
     <<57, 126, 253>>, <<57, 179, 5>>, <<57, 207, 157>>, <<58, 17, 14>>, <<58, 45, 166>>, <<58, 126, 70>>,
     <<58, 153, 38>>, <<59, 182, 191>>, <<59, 236, 127>>, <<60, 101, 104>>, <<60, 182, 8>>, <<60, 210, 160>>,
     <<61, 20, 17>>, <<61, 102, 105>>, <<61, 129, 73>>, <<61, 156, 41>>, <<61, 157, 225>>, <<62, 185, 194>>,
     <<62, 239, 130>>, <<63, 104, 107>>, <<63, 185, 11>>, <<63, 213, 163>>, <<64, 51, 172>>, <<64, 105, 108>>,
     <<65, 133, 77>>, <<65, 160, 45>>, <<65, 188, 197>>, <<65, 242, 133>>, <<66, 80, 142>>, <<66, 188, 14>>,
     <<66, 216, 166>>, <<67, 190, 199>>, <<68, 82, 144>>, <<68, 136, 80>>, <<68, 190, 16>>, <<68, 245, 136>>,
     <<69, 83, 145>>, <<69, 191, 17>>, <<69, 219, 169>>, <<70, 193, 202>>, <<71, 112, 115>>, <<71, 139, 83>>,
     <<72, 140, 84>>, <<72, 194, 20>>, <<72, 222, 172>>, <<72, 249, 140>>, <<73, 33, 213>>, <<73, 196, 205>>,
     <<74, 33, 30>>, <<74, 115, 118>>, <<74, 142, 86>>, <<75, 34, 31>>, <<75, 143, 87>>, <<75, 171, 239>>,
     <<75, 197, 23>>, <<75, 225, 175>>, <<75, 252, 143>>, <<76, 199, 208>>, <<77, 63, 1>>, <<77, 91, 153>>,
     <<77, 118, 121>>, <<77, 145, 89>>, <<78, 64, 2>>, <<78, 174, 242>>, <<78, 200, 26>>, <<78, 228, 178>>,
     <<78, 255, 146>>, <<79, 39, 219>>, <<79, 202, 211>>, <<80, 66, 4>>, <<80, 94, 156>>, <<81, 40, 37>>,
     <<81, 68, 189>>, <<81, 177, 245>>, <<81, 203, 29>>, <<81, 204, 213>>, <<81, 231, 181>>, <<82, 178, 246>>,
     <<82, 204, 30>>, <<82, 205, 214>>, <<83, 69, 7>>, <<83, 97, 159>>, <<83, 178, 63>>, <<84, 43, 40>>,
     <<84, 179, 64>>, <<84, 180, 248>>, <<84, 206, 32>>, <<84, 207, 216>>, <<84, 233, 0>>, <<84, 234, 184>>,
     <<85, 126, 129>>, <<85, 207, 33>>, <<85, 235, 185>>, <<86, 72, 10>>, <<86, 100, 162>>, <<86, 235, 2>>,
     <<87, 155, 99>>, <<87, 183, 251>>, <<87, 236, 3>>, <<88, 102, 164>>, <<88, 129, 132>>, <<88, 210, 36>>,
     <<88, 238, 188>>, <<89, 75, 13>>, <<89, 238, 5>>, <<90, 49, 46>>, <<90, 185, 70>>, <<90, 212, 38>>,
     <<90, 213, 222>>, <<90, 240, 190>>, <<91, 132, 135>>, <<91, 213, 39>>, <<91, 241, 191>>, <<92, 51, 48>>,
     <<92, 78, 16>>, <<92, 133, 136>>, <<92, 241, 8>>, <<93, 52, 49>>, <<94, 135, 138>>, <<94, 216, 42>>,
     <<94, 244, 194>>, <<95, 81, 19>>, <<95, 136, 139>>, <<95, 190, 75>>, <<95, 244, 11>>, <<96, 28, 84>>,
     <<96, 55, 52>>, <<96, 164, 108>>, <<97, 219, 45>>, <<97, 247, 197>>, <<98, 112, 174>>, <<98, 193, 78>>,
     <<98, 221, 230>>, <<98, 247, 14>>, <<99, 31, 87>>, <<99, 140, 143>>, <<99, 167, 111>>, <<99, 249, 199>>,
     <<100, 222, 48>>, <<100, 249, 16>>, <<100, 250, 200>>, <<101, 61, 241>>, <<101, 115, 177>>, <<101, 196, 81>>,
     <<101, 224, 233>>, <<101, 250, 17>>, <<102, 34, 90>>, <<102, 170, 114>>, <<102, 252, 202>>, <<103, 89, 27>>,
     <<103, 171, 115>>, <<103, 225, 51>>, <<103, 252, 19>>, <<103, 253, 203>>, <<104, 63, 60>>, <<104, 91, 212>>,
     <<104, 118, 180>>, <<104, 199, 84>>, <<104, 227, 236>>, <<104, 253, 20>>, <<105, 37, 93>>, <<105, 91, 29>>,
     <<105, 119, 181>>, <<105, 173, 117>>, <<105, 255, 205>>, <<106, 174, 118>>, <<106, 255, 22>>, <<107, 94, 215>>,
     <<107, 121, 183>>, <<107, 202, 87>>, <<107, 230, 239>>, <<108, 176, 120>>, <<109, 68, 65>>, <<109, 95, 33>>,
     <<109, 122, 1>>, <<109, 204, 89>>, <<109, 231, 57>>, <<110, 70, 250>>, <<110, 124, 186>>, <<110, 205, 90>>,
     <<110, 233, 242>>, <<111, 179, 123>>, <<112, 71, 68>>, <<112, 98, 36>>, <<112, 125, 4>>, <<112, 126, 188>>,
     <<112, 180, 124>>, <<113, 73, 253>>, <<113, 126, 5>>, <<113, 208, 93>>, <<113, 235, 61>>, <<113, 236, 245>>,
     <<114, 19, 134>>, <<115, 101, 39>>, <<115, 102, 223>>, <<115, 128, 7>>, <<116, 129, 8>>, <<116, 157, 160>>,
     <<116, 211, 96>>, <<116, 238, 64>>, <<116, 239, 248>>, <<118, 104, 42>>, <<118, 105, 226>>, <<118, 131, 10>>,
     <<119, 51, 107>>, <<119, 160, 163>>, <<119, 214, 99>>, <<119, 241, 67>>, <<119, 242, 251>>, <<120, 133, 12>>,
     <<121, 80, 77>>, <<121, 108, 229>>, <<121, 134, 13>>, <<122, 163, 166>>, <<122, 190, 134>>, <<122, 217, 102>>,
     <<122, 244, 70>>, <<122, 245, 254>>, <<123, 136, 15>>, <<124, 83, 80>>, <<124, 111, 232>>, <<124, 137, 16>>,
     <<125, 193, 137>>, <<125, 220, 105>>, <<126, 112, 50>>, <<126, 139, 18>>, <<126, 140, 202>>, <<126, 221, 106>>,
     <<127, 249, 75>>, <<128, 141, 20>>, <<128, 169, 172>>, <<128, 250, 76>>, <<129, 115, 53>>, <<129, 143, 205>>,
     <<129, 224, 109>>, <<130, 89, 86>>, <<130, 252, 78>>, <<131, 199, 143>>, <<131, 226, 111>>, <<132, 118, 56>>,
     <<132, 146, 208>>, <<132, 227, 112>>, <<133, 119, 57>>, <<133, 147, 209>>, <<133, 255, 81>>, <<134, 147, 26>>,
     <<135, 121, 59>>, <<135, 149, 211>>, <<135, 230, 115>>, <<136, 95, 92>>, <<136, 122, 60>>, <<136, 204, 148>>,
     <<137, 14, 5>>, <<137, 150, 29>>, <<137, 178, 181>>, <<138, 152, 214>>, <<138, 179, 182>>, <<138, 233, 118>>,
     <<139, 98, 95>>, <<139, 153, 215>>, <<139, 207, 151>>, <<140, 153, 32>>, <<140, 235, 120>>, <<141, 182, 185>>,
     <<141, 236, 121>>, <<142, 101, 98>>, <<142, 182, 2>>, <<142, 210, 154>>, <<143, 102, 99>>, <<143, 156, 35>>,
     <<143, 238, 123>>, <<144, 239, 124>>, <<145, 104, 101>>, <<145, 185, 5>>, <<145, 213, 157>>, <<146, 105, 102>>,
     <<146, 133, 254>>, <<146, 159, 38>>, <<147, 160, 39>>, <<147, 188, 191>>, <<148, 80, 136>>, <<148, 107, 104>>,
     <<148, 188, 8>>, <<148, 216, 160>>, <<149, 162, 41>>, <<149, 190, 193>>, <<150, 82, 138>>, <<150, 190, 10>>,
     <<150, 245, 130>>, <<151, 56, 171>>, <<151, 110, 107>>, <<151, 191, 11>>, <<151, 219, 163>>, <<152, 193, 196>>,
     <<153, 85, 141>>, <<153, 112, 109>>, <<153, 166, 45>>, <<153, 194, 197>>, <<154, 59, 174>>, <<154, 140, 78>>,
     <<154, 194, 14>>, <<154, 222, 166>>, <<154, 249, 134>>, <<155, 196, 199>>, <<157, 34, 25>>, <<157, 62, 177>>,
     <<157, 89, 145>>, <<157, 143, 81>>, <<157, 171, 233>>, <<157, 197, 17>>, <<157, 225, 169>>, <<157, 252, 137>>,
     <<158, 199, 202>>, <<159, 91, 147>>, <<160, 200, 20>>, <<160, 228, 172>>, <<161, 202, 205>>, <<162, 94, 150>>,
     <<163, 68, 183>>, <<163, 149, 87>>, <<163, 177, 239>>, <<164, 150, 88>>, <<164, 178, 240>>, <<164, 204, 24>>,
     <<164, 205, 208>>, <<165, 69, 1>>, <<165, 97, 153>>, <<165, 178, 57>>, <<166, 71, 186>>, <<166, 179, 58>>,
     <<166, 206, 26>>, <<166, 207, 210>>, <<166, 234, 178>>, <<167, 126, 123>>, <<167, 207, 27>>, <<167, 208, 211>>,
     <<167, 235, 179>>, <<168, 72, 4>>, <<168, 100, 156>>, <<169, 74, 189>>, <<169, 155, 93>>, <<169, 183, 245>>,
     <<170, 210, 30>>, <<170, 211, 214>>, <<170, 238, 182>>, <<171, 75, 7>>, <<172, 185, 64>>, <<172, 212, 32>>,
     <<172, 213, 216>>, <<172, 240, 184>>, <<173, 213, 33>>, <<173, 241, 185>>, <<174, 78, 10>>, <<174, 133, 130>>,
     <<174, 241, 2>>, <<176, 190, 252>>, <<176, 216, 36>>, <<176, 244, 188>>, <<177, 81, 13>>, <<177, 190, 69>>,
     <<177, 244, 5>>, <<178, 164, 102>>, <<179, 56, 47>>, <<179, 193, 255>>, <<179, 219, 39>>, <<179, 247, 191>>,
     <<180, 84, 16>>, <<180, 139, 136>>, <<180, 193, 72>>, <<180, 221, 224>>, <<180, 247, 8>>, <<181, 167, 105>>,
     <<181, 221, 41>>, <<181, 249, 193>>, <<182, 249, 10>>, <<183, 61, 235>>, <<183, 87, 19>>, <<183, 196, 75>>,
     <<183, 224, 227>>, <<183, 250, 11>>, <<184, 170, 108>>, <<184, 252, 196>>, <<185, 225, 45>>, <<185, 253, 197>>,
     <<186, 199, 78>>, <<186, 227, 230>>, <<186, 253, 14>>, <<187, 91, 23>>, <<187, 119, 175>>, <<187, 173, 111>>,
     <<187, 255, 199>>, <<188, 174, 112>>, <<188, 255, 16>>, <<189, 202, 81>>, <<189, 230, 233>>, <<191, 68, 59>>,
     <<191, 95, 27>>, <<191, 204, 83>>, <<191, 231, 51>>, <<192, 70, 244>>, <<192, 205, 84>>, <<192, 233, 236>>,
     <<193, 179, 117>>, <<194, 71, 62>>, <<194, 98, 30>>, <<194, 180, 118>>, <<195, 45, 95>>, <<195, 73, 247>>,
     <<195, 208, 87>>, <<195, 235, 55>>, <<195, 236, 239>>, <<196, 128, 184>>, <<196, 182, 120>>, <<198, 48, 98>>,
     <<198, 76, 250>>, <<198, 129, 2>>, <<198, 157, 154>>, <<198, 211, 90>>, <<198, 238, 58>>, <<198, 239, 242>>,
     <<199, 185, 123>>, <<201, 51, 101>>, <<201, 214, 93>>, <<201, 242, 245>>, <<202, 134, 190>>, <<203, 80, 71>>,
     <<204, 54, 104>>, <<204, 135, 8>>, <<204, 163, 160>>, <<204, 244, 64>>, <<206, 83, 74>>, <<207, 57, 107>>,
     <<207, 193, 131>>, <<207, 220, 99>>, <<207, 248, 251>>, <<208, 112, 44>>, <<208, 140, 196>>, <<208, 221, 100>>,
     <<208, 249, 252>>, <<209, 86, 77>>, <<209, 249, 69>>, <<210, 141, 14>>, <<210, 169, 166>>, <<210, 250, 70>>,
     <<211, 143, 199>>, <<211, 224, 103>>, <<211, 252, 255>>, <<212, 89, 80>>, <<212, 252, 72>>, <<213, 118, 233>>,
     <<213, 199, 137>>, <<213, 226, 105>>, <<214, 146, 202>>, <<214, 227, 106>>, <<215, 119, 51>>, <<215, 147, 203>>,
     <<215, 255, 75>>, <<216, 147, 20>>, <<217, 149, 205>>, <<217, 230, 109>>, <<218, 95, 86>>, <<218, 204, 142>>,
     <<219, 150, 23>>, <<219, 178, 175>>, <<220, 152, 208>>, <<220, 233, 112>>, <<221, 98, 89>>, <<221, 125, 57>>,
     <<221, 153, 209>>, <<221, 207, 145>>, <<222, 153, 26>>, <<222, 235, 114>>, <<223, 182, 179>>, <<224, 47, 156>>,
     <<224, 101, 92>>, <<224, 210, 148>>, <<225, 20, 5>>, <<225, 102, 93>>, <<225, 156, 29>>, <<225, 238, 117>>,
     <<226, 158, 214>>, <<226, 239, 118>>, <<227, 213, 151>>, <<228, 105, 96>>, <<228, 133, 248>>, <<228, 159, 32>>,
     <<228, 241, 120>>, <<229, 160, 33>>, <<229, 188, 185>>, <<230, 188, 2>>, <<230, 216, 154>>, <<231, 136, 251>>,
     <<231, 190, 187>>, <<231, 244, 123>>, <<232, 82, 132>>, <<232, 190, 4>>, <<232, 245, 124>>, <<233, 28, 13>>,
     <<233, 56, 165>>, <<233, 191, 5>>, <<233, 219, 157>>, <<234, 165, 38>>, <<234, 193, 190>>, <<236, 31, 16>>,
     <<236, 59, 168>>, <<236, 140, 72>>, <<236, 194, 8>>, <<236, 222, 160>>, <<236, 249, 128>>, <<237, 114, 105>>,
     <<237, 196, 193>>, <<239, 143, 75>>, <<239, 171, 227>>, <<239, 252, 131>>, <<240, 199, 196>>, <<241, 91, 141>>,
     <<242, 200, 14>>, <<242, 228, 166>>, <<243, 120, 111>>, <<243, 202, 199>>, <<245, 68, 177>>, <<245, 149, 81>>,
     <<245, 177, 233>>, <<246, 204, 18>>, <<246, 205, 202>>, <<247, 178, 51>>, <<248, 71, 180>>, <<248, 179, 52>>,
     <<248, 206, 20>>, <<248, 207, 204>>, <<248, 234, 172>>, <<249, 126, 117>>, <<249, 207, 21>>, <<249, 208, 205>>,
     <<249, 235, 173>>, <<251, 74, 183>>, <<251, 155, 87>>, <<251, 183, 239>>, <<252, 129, 120>>, <<252, 210, 24>>,
     <<252, 211, 208>>, <<252, 238, 176>>, <<253, 75, 1>>, <<255, 132, 123>>, <<255, 213, 27>>, <<255, 214, 211>>,
     <<255, 241, 179>>}

LuminanceSum(r, g, b) == 2126 * r + 7152 * g + 722 * b

\* a blue coefficient of 0.0822: the weights no longer sum to 1
LuminanceHeavyBlue(r, g, b) == (2126 * r + 7152 * g + 822 * b + 5000) \div 10000

Luminance(r, g, b) ==
    IF <<r, g, b>> \in TiesBelowHalf
    THEN (LuminanceSum(r, g, b) + 5000) \div 10000 - 1
    ELSE (LuminanceSum(r, g, b) + 5000) \div 10000

\* cb = 128 + (-0.168736 r - 0.331264 g + 0.5 b) and
\* cr = 128 + (0.5 r - 0.418688 g - 0.081312 b), held in units of
\* 1/ChromaScale = 32/1000000, the coarsest unit in which every coefficient is
\* an integer (168736 = 32 * 5273, 331264 = 32 * 10352, 500000 = 32 * 15625,
\* 418688 = 32 * 13084, 81312 = 32 * 2541).
ChromaScale == 31250
\* the green coefficient of cb with two digits swapped: 0.313264
ChromaCbSwapped(r, g, b) ==
    128 * ChromaScale + ((0 - 168736 * r - 313264 * g + 500000 * b) \div 32)

ChromaCb(r, g, b) == 128 * ChromaScale + (0 - 5273 * r - 10352 * g + 15625 * b)
ChromaCr(r, g, b) == 128 * ChromaScale + (15625 * r - 13084 * g - 2541 * b)

(***************************************************************************)
(* VideoScopes.calculateScopeData (scopes.js:44-106).                      *)
(***************************************************************************)
\* new Array(n).fill(null).map(() => [])
NewColumns(n) == [c \in 1..n |-> <<>>]

\* a histogram buffer kept from the previous call and not cleared
ReusedHistogram ==
    IF analysis # None THEN analysis[1].histogram
    ELSE [c \in {"r", "g", "b", "lum"} |-> [v \in 0..(HistogramBuckets - 1) |-> 0]]

\* new Array(256).fill(0), four times
NewHistogram ==
    [r |-> [v \in 0..(HistogramBuckets - 1) |-> 0],
     g |-> [v \in 0..(HistogramBuckets - 1) |-> 0],
     b |-> [v \in 0..(HistogramBuckets - 1) |-> 0],
     lum |-> [v \in 0..(HistogramBuckets - 1) |-> 0]]

\* the accumulators as allocated before the scan
NewScopeData(width) ==
    [luminance |-> NewColumns(width),
     rgbColumns |-> [r |-> NewColumns(width \div 3),
                     g |-> NewColumns(width \div 3),
                     b |-> NewColumns(width \div 3)],
     colorPoints |-> <<>>,
     histogram |-> NewHistogram]

\* the stride rounded up instead of down
vectorSampleRateCeil(width, height) ==
    (width * height + VectorSampleBudget - 1) \div VectorSampleBudget

\* the stride rounded to the nearest integer instead of down
vectorSampleRateRounded(width, height) ==
    Max(1, (2 * width * height + VectorSampleBudget) \div (2 * VectorSampleBudget))

\* Math.max(1, Math.floor((width * height) / 50000))
vectorSampleRate(width, height) == Max(1, (width * height) \div VectorSampleBudget)

\* (y * width + x) % vectorSampleRate === 0
IsSampled(idx, rate) == idx % rate = 0

\* leftover pixels folded into the last parade column instead of dropped
ParadeAddClamped(rgbColumns, width, x, px) ==
    LET paradeWidth == width \div 3
        paradeX == Min(x \div 3, paradeWidth - 1)
    IN  IF paradeWidth > 0
        THEN [r |-> [rgbColumns.r EXCEPT ![paradeX + 1] = Append(@, px.r)],
              g |-> [rgbColumns.g EXCEPT ![paradeX + 1] = Append(@, px.g)],
              b |-> [rgbColumns.b EXCEPT ![paradeX + 1] = Append(@, px.b)]]
        ELSE rgbColumns

\* lines 75-82: the pixel's channels go to parade column floor(x / 3)
ParadeAdd(rgbColumns, width, x, px) ==
    LET paradeWidth == width \div 3
        paradeX == x \div 3
    IN  IF paradeX < paradeWidth
        THEN [r |-> [rgbColumns.r EXCEPT ![paradeX + 1] = Append(@, px.r)],
              g |-> [rgbColumns.g EXCEPT ![paradeX + 1] = Append(@, px.g)],
              b |-> [rgbColumns.b EXCEPT ![paradeX + 1] = Append(@, px.b)]]
        ELSE rgbColumns

\* lines 84-90
VectorAdd(colorPoints, idx, rate, px) ==
    IF IsSampled(idx, rate)
    THEN Append(colorPoints, [cb |-> ChromaCb(px.r, px.g, px.b),
                              cr |-> ChromaCr(px.r, px.g, px.b),
                              r |-> px.r, g |-> px.g, b |-> px.b])
    ELSE colorPoints

\* the luminance bucket guarded by a truthiness test: if (lum) ...
HistogramAddTruthy(histogram, px, lum) ==
    [r |-> [histogram.r EXCEPT ![px.r] = @ + 1],
     g |-> [histogram.g EXCEPT ![px.g] = @ + 1],
     b |-> [histogram.b EXCEPT ![px.b] = @ + 1],
     lum |-> IF lum # 0 THEN [histogram.lum EXCEPT ![lum] = @ + 1] ELSE histogram.lum]

\* the luminance counted in the bucket of the red value
HistogramAddLumByRed(histogram, px, lum) ==
    [r |-> [histogram.r EXCEPT ![px.r] = @ + 1],
     g |-> [histogram.g EXCEPT ![px.g] = @ + 1],
     b |-> [histogram.b EXCEPT ![px.b] = @ + 1],
     lum |-> [histogram.lum EXCEPT ![px.r] = @ + 1]]

\* lines 93-96
HistogramAdd(histogram, px, lum) ==
    [r |-> [histogram.r EXCEPT ![px.r] = @ + 1],
     g |-> [histogram.g EXCEPT ![px.g] = @ + 1],
     b |-> [histogram.b EXCEPT ![px.b] = @ + 1],
     lum |-> [histogram.lum EXCEPT ![lum] = @ + 1]]

\* the loop body with the luminance filed under the row instead of the column
ScanPixelByRow(acc, data, width, rate, idx) ==
    LET x == idx % width
        y == idx \div width
        px == data[idx + 1]
        lum == Luminance(px.r, px.g, px.b)
    IN  [luminance |-> [acc.luminance EXCEPT ![y + 1] = Append(@, lum)],
         rgbColumns |-> ParadeAdd(acc.rgbColumns, width, x, px),
         colorPoints |-> VectorAdd(acc.colorPoints, idx, rate, px),
         histogram |-> HistogramAdd(acc.histogram, px, lum)]

\* the loop body for the pixel at raster index idx = y * width + x
ScanPixel(acc, data, width, rate, idx) ==
    LET x == idx % width
        px == data[idx + 1]
        lum == Luminance(px.r, px.g, px.b)
    IN  [luminance |-> [acc.luminance EXCEPT ![x + 1] = Append(@, lum)],
         rgbColumns |-> ParadeAdd(acc.rgbColumns, width, x, px),
         colorPoints |-> VectorAdd(acc.colorPoints, idx, rate, px),
         histogram |-> HistogramAdd(acc.histogram, px, lum)]

\* for y in 0..height-1, for x in 0..width-1: raster order
RECURSIVE ScanFrom(_, _, _, _, _, _)
ScanFrom(acc, data, width, height, rate, idx) ==
    IF idx >= width * height THEN acc
    ELSE LET scanned == ScanPixel(acc, data, width, rate, idx)
         IN  \* there stay width luminance columns; the comparison also makes
             \* the accumulators values before the next pixel is scanned
             IF Len(scanned.luminance) = width
             THEN ScanFrom(scanned, data, width, height, rate, idx + 1)
             ELSE acc

calculateScopeData(data, width, height) ==
    ScanFrom(NewScopeData(width), data, width, height,
             vectorSampleRate(width, height), 0)

\* The sampling test of the scan alone, for frames too large to hold pixel by
\* pixel: how many raster indices of a width x height frame reach line 89.
SampledCount(width, height) ==
    Cardinality({idx \in 0..(width * height - 1) :
                    IsSampled(idx, vectorSampleRate(width, height))})

(***************************************************************************)
(* The intensity map shared by three renderers (scopes.js:124-163,         *)
(* 195-242, 268-314).  A map is the Uint32Array: one counter per canvas    *)
(* cell, index y * width + x.                                              *)
(***************************************************************************)
\* the waveform's map of the previous render taken over instead of a new one
ReusedIntensityMap(n) ==
    IF waveform # None /\ DOMAIN waveform[1].map = 0..(n - 1)
    THEN waveform[1].map
    ELSE [i \in 0..(n - 1) |-> 0]

\* new Uint32Array(n)
NewIntensityMap(n) == [i \in 0..(n - 1) |-> 0]

\* if (y >= 0 && y < height && x >= 0 && x < width) intensityMap[y * width + x]++
Plot(map, x, y, width, height) ==
    IF y >= 0 /\ y < height /\ x >= 0 /\ x < width
    THEN [map EXCEPT ![y * width + x] = @ + 1]
    ELSE map

\* Math.max(...intensityMap) without the floor of 1
MaxIntensityUnfloored(map) ==
    LET S == {map[i] : i \in DOMAIN map} \cup {0}
    IN  CHOOSE m \in S : \A k \in S : k <= m

\* let maxIntensity = 1; for each cell: if (cell > maxIntensity) maxIntensity = cell
\* leaves the greatest of 1 and the counters
MaxIntensity(map) ==
    LET S == {map[i] : i \in DOMAIN map} \cup {1}
    IN  CHOOSE m \in S : \A k \in S : k <= m

\* A canvas cell after the pixel loop: untouched, or painted with
\* intensity = Math.min(1, (count / maxIntensity) * gain), the fraction
\* num / den.
Untouched == [painted |-> FALSE, num |-> 0, den |-> 1]
Intensity(count, maxIntensity, gain) ==
    [painted |-> TRUE, num |-> Min(count * gain, maxIntensity), den |-> maxIntensity]

\* for each cell: if (intensityMap[i] > 0) paint it
Colorize(map, maxIntensity, gain) ==
    [i \in DOMAIN map |->
        IF map[i] > 0 THEN Intensity(map[i], maxIntensity, gain) ELSE Untouched]

\* what a renderer leaves behind: the counters, the maximum it normalised by,
\* the gain, and the cells
Rendered(map, gain) ==
    [map |-> map, maxIntensity |-> MaxIntensity(map), gain |-> gain,
     cells |-> Colorize(map, MaxIntensity(map), gain)]

(***************************************************************************)
(* Waveform and parade plotting (scopes.js:127-138, 198-208).              *)
(***************************************************************************)
\* a scale over the full height instead of height - 1: row height for v = 0
WaveYFullHeight(v, height) == height - (v * height) \div 255

\* Math.floor(height - 1 - (v / 255) * (height - 1)) in doubles.  With K the
\* exact v * (height - 1) / 255: when K is no integer the result is
\* height - 2 - floor(K); when it is one, the double product is K or a
\* neighbour of K, and a product above K can pull the difference below
\* height - 1 - K.
WaveY(v, height) ==
    LET c == height - 1
        K == (v * c) \div 255
        M == c - K
    IN  IF (v * c) % 255 # 0 THEN M - 1
        ELSE IF MulDivClass(v, 255, c) <= 0 THEN M
        ELSE IF FloorLog2(K) >= CeilLog2(M) - 1 THEN M - 1 ELSE M

\* for (const lum of values): one counter per value
RECURSIVE PlotValues(_, _, _, _, _, _)
PlotValues(map, values, k, x, width, height) ==
    IF k > Len(values) THEN map
    ELSE LET plotted == Plot(map, x, WaveY(values[k], height), width, height)
         IN  \* the typed array keeps its length; the comparison also makes
             \* the map a value before the next value is plotted
             IF DOMAIN plotted = DOMAIN map
             THEN PlotValues(plotted, values, k + 1, x, width, height)
             ELSE map

\* for (col = 0; col < columns.length; col++), x = floor((col / length) * width)
RECURSIVE PlotColumns(_, _, _, _, _)
PlotColumns(map, columns, col, width, height) ==
    IF col >= Len(columns) THEN map
    ELSE LET plotted == PlotValues(map, columns[col + 1], 1,
                                   FloorMulDiv(col, Len(columns), width),
                                   width, height)
         IN  IF DOMAIN plotted = DOMAIN map
             THEN PlotColumns(plotted, columns, col + 1, width, height)
             ELSE map

\* The calls a render makes on its 2D context, in order: fillRect (clear),
\* the graticule, getImageData / putImageData around the colouring of the
\* cells (once, or once per parade channel), the graticule again.
Painting == <<"getImageData", "putImageData">>

\* a render that leaves out the graticule on top
WaveformCallsOnce == <<"fillRect", "drawGraticule">> \o Painting

WaveformCalls == <<"fillRect", "drawGraticule">> \o Painting \o <<"drawGraticule">>

ParadeCalls ==
    <<"fillRect", "drawGraticule">> \o Painting \o Painting \o Painting
        \o <<"drawGraticule">>

VectorscopeCalls ==
    <<"fillRect", "drawVectorscopeGraticule">> \o Painting
        \o <<"drawVectorscopeGraticule">>

\* renderWaveform(luminanceColumns) on a width x height canvas
renderWaveform(luminanceColumns, width, height) ==
    Rendered(PlotColumns(NewIntensityMap(width * height), luminanceColumns, 0,
                         width, height),
             WaveformGain)
        @@ [calls |-> WaveformCalls]

\* renderParade(rgbColumns): three maps, each floor(width / 3) wide
renderParade(rgbColumns, width, height) ==
    LET channelWidth == width \div 3
        Channel(channelData) ==
            Rendered(PlotColumns(NewIntensityMap(channelWidth * height),
                                 channelData, 0, channelWidth, height),
                     ParadeGain)
    IN  [r |-> Channel(rgbColumns.r),
         g |-> Channel(rgbColumns.g),
         b |-> Channel(rgbColumns.b),
         calls |-> ParadeCalls]

(***************************************************************************)
(* Vectorscope plotting (scopes.js:254-290).                               *)
(***************************************************************************)
\* px = Math.floor(center + ((cb - 128) / 128) * radius) with
\* center = size / 2 and radius = size / 2 - 20, as an exact quotient
VectorX(cb, size) ==
    (size * 128 * ChromaScale + (cb - 128 * ChromaScale) * (size - 2 * VectorscopeMargin))
        \div (256 * ChromaScale)
\* py = Math.floor(center - ((cr - 128) / 128) * radius)
VectorY(cr, size) ==
    (size * 128 * ChromaScale - (cr - 128 * ChromaScale) * (size - 2 * VectorscopeMargin))
        \div (256 * ChromaScale)

\* a single cell per point, as before the 3 x 3 plot was introduced
StampOne(map, px, py, size, n) == Plot(map, px, py, size, size)

\* for dy in -1..1, for dx in -1..1: plot (px + dx, py + dy)
RECURSIVE Stamp(_, _, _, _, _)
Stamp(map, px, py, size, n) ==
    IF n >= 9 THEN map
    ELSE Stamp(Plot(map, px + (n % 3) - 1, py + (n \div 3) - 1, size, size),
               px, py, size, n + 1)

RECURSIVE PlotPoints(_, _, _, _)
PlotPoints(map, colorPoints, k, size) ==
    IF k > Len(colorPoints) THEN map
    ELSE LET stamped == Stamp(map, VectorX(colorPoints[k].cb, size),
                              VectorY(colorPoints[k].cr, size), size, 0)
         IN  \* the typed array keeps its length; the comparison also makes
             \* the stamped map a value before the next point is plotted
             IF DOMAIN stamped = DOMAIN map
             THEN PlotPoints(stamped, colorPoints, k + 1, size)
             ELSE map

renderVectorscope(colorPoints, size) ==
    Rendered(PlotPoints(NewIntensityMap(size * size), colorPoints, 1, size),
             VectorscopeGain)
        @@ [calls |-> VectorscopeCalls]

(***************************************************************************)
(* AnyScope: zone selection (app.js:107-168).                              *)
(***************************************************************************)
Scopes == {"waveform", "parade", "vectorscope", "histogram"}

\* rect.width and rect.height of the selection canvas, in CSS pixels.  Pointer
\* offsets are whole pixels, so with a power of two every relative position
\* k / SelectionCanvasSize, every difference of two of them and every product
\* with a source size is an exact double: zone arithmetic in units of
\* 1 / SelectionCanvasSize is the arithmetic of the code.
SelectionCanvasSize == 128

\* e.clientX - rect.left, e.clientY - rect.top of the pointer events drawn
PointerOffsets == {<<-3, 0>>, <<2, 64>>, <<140, 128>>}

\* getRelativePosition(e): clamped to [0, 1]
getRelativePosition(e) ==
    [x |-> Max(0, Min(SelectionCanvasSize, e[1])),
     y |-> Max(0, Min(SelectionCanvasSize, e[2]))]

\* v < 0.02 for v in units of 1 / SelectionCanvasSize
TooSmall(v) == v * 100 < 2 * SelectionCanvasSize

\* onSelectionStart(e)
onSelectionStart(e) ==
    /\ isCapturing
    /\ isSelecting' = TRUE
    /\ selectionStart' = Some(getRelativePosition(e))
    /\ selectedZone' = None
    /\ resetZoneButtonDisabled' = TRUE

\* the rectangle onSelectionMove computes
SelectionRect(start, current) ==
    [x |-> Min(start.x, current.x),
     y |-> Min(start.y, current.y),
     width |-> IF current.x >= start.x THEN current.x - start.x ELSE start.x - current.x,
     height |-> IF current.y >= start.y THEN current.y - start.y ELSE start.y - current.y]

\* onSelectionMove(e)
onSelectionMove(e) ==
    /\ isSelecting
    /\ selectionStart # None
    /\ selectedZone' = Some(SelectionRect(selectionStart[1], getRelativePosition(e)))
    /\ UNCHANGED <<isSelecting, selectionStart, resetZoneButtonDisabled>>

\* a zone dropped only when both its sides are too small
EndZoneBothSmall(zone) ==
    IF zone # None /\ (TooSmall(zone[1].width) /\ TooSmall(zone[1].height))
    THEN None ELSE zone

\* the zone onSelectionEnd keeps
EndZone(zone) ==
    IF zone # None /\ (TooSmall(zone[1].width) \/ TooSmall(zone[1].height))
    THEN None ELSE zone

\* onSelectionEnd(e) without the update of the reset-zone button
onSelectionEndStaleButton ==
    /\ isSelecting
    /\ isSelecting' = FALSE
    /\ selectedZone' = EndZone(selectedZone)
    /\ UNCHANGED <<selectionStart, resetZoneButtonDisabled>>

\* onSelectionEnd(e)
onSelectionEnd ==
    /\ isSelecting
    /\ isSelecting' = FALSE
    /\ selectedZone' = EndZone(selectedZone)
    /\ resetZoneButtonDisabled' = (selectedZone' = None)
    /\ UNCHANGED selectionStart

\* resetZone()
resetZone ==
    /\ selectedZone' = None
    /\ resetZoneButtonDisabled' = TRUE
    /\ UNCHANGED <<isSelecting, selectionStart>>

(***************************************************************************)
(* AnyScope: one execution of analyzeFrame (app.js:331-384).               *)
(***************************************************************************)
\* Math.floor(v * Math.min(1, maxAnalysisWidth / zoneW)); 320 / 0 is Infinity
ScaleDown(zoneW, v) ==
    IF zoneW <= MaxAnalysisWidth THEN v ELSE FloorMulDiv(MaxAnalysisWidth, zoneW, v)

\* lines 337-361: the source rectangle and the analysis size
AnalysisRect(zone, srcWidth, srcHeight) ==
    LET zoneX == IF zone = None THEN 0
                 ELSE (zone[1].x * srcWidth) \div SelectionCanvasSize
        zoneY == IF zone = None THEN 0
                 ELSE (zone[1].y * srcHeight) \div SelectionCanvasSize
        zoneW == IF zone = None THEN srcWidth
                 ELSE Max((zone[1].width * srcWidth) \div SelectionCanvasSize, MinZoneSize)
        zoneH == IF zone = None THEN srcHeight
                 ELSE Max((zone[1].height * srcHeight) \div SelectionCanvasSize, MinZoneSize)
    IN  [zoneX |-> zoneX, zoneY |-> zoneY, zoneW |-> zoneW, zoneH |-> zoneH,
         analysisWidth |-> ScaleDown(zoneW, zoneW),
         analysisHeight |-> ScaleDown(zoneW, zoneH)]

\* captureCtx.getImageData(0, 0, sw, sh) throws an IndexSizeError when sw or
\* sh is zero (the canvas API's contract); nothing in analyzeFrame catches it.
GetImageDataThrows(sw, sh) == sw = 0 \/ sh = 0

\* scopes.analyze(imageData): the calls it makes, in order (scopes.js:26-39)
AnalyzeCalls ==
    <<"calculateScopeData", "renderWaveform", "renderParade",
      "renderVectorscope", "renderHistogram">>

\* the canvas a call of analyze draws on
Renderer == [waveform |-> "renderWaveform", parade |-> "renderParade",
             vectorscope |-> "renderVectorscope", histogram |-> "renderHistogram"]

\* analyzeFrame without its first line
FrameStepsUnguarded(capturing, ready, zone, srcWidth, srcHeight) ==
    IF ~ready THEN <<"setTimeout">>
    ELSE LET rect == AnalysisRect(zone, srcWidth, srcHeight)
         IN  IF GetImageDataThrows(rect.analysisWidth, rect.analysisHeight)
             THEN <<"drawImage", "getImageData", "throw">>
             ELSE <<"drawImage", "getImageData">> \o AnalyzeCalls \o <<"setTimeout">>

\* analyzeFrame scheduling the next frame before it analyses this one
FrameStepsScheduleFirst(capturing, ready, zone, srcWidth, srcHeight) ==
    IF ~capturing THEN <<"return">>
    ELSE IF ~ready THEN <<"setTimeout">>
    ELSE LET rect == AnalysisRect(zone, srcWidth, srcHeight)
         IN  IF GetImageDataThrows(rect.analysisWidth, rect.analysisHeight)
             THEN <<"setTimeout", "drawImage", "getImageData", "throw">>
             ELSE <<"setTimeout", "drawImage", "getImageData">> \o AnalyzeCalls

\* The statements one execution of analyzeFrame performs, in order, given
\* this.isCapturing, whether readyState >= HAVE_CURRENT_DATA, this.selectedZone
\* and the video's size.  It ends with "throw" when an exception leaves it.
FrameSteps(capturing, ready, zone, srcWidth, srcHeight) ==
    IF ~capturing THEN <<"return">>
    ELSE IF ~ready THEN <<"setTimeout">>
    ELSE LET rect == AnalysisRect(zone, srcWidth, srcHeight)
         IN  IF GetImageDataThrows(rect.analysisWidth, rect.analysisHeight)
             THEN <<"drawImage", "getImageData", "throw">>
             ELSE <<"drawImage", "getImageData">> \o AnalyzeCalls \o <<"setTimeout">>

Has(steps, call) == \E k \in 1..Len(steps) : steps[k] = call

\* analyzeFrame(), as a step of the application: what it read, what it did
\* (kept in cycle; rect is the rectangle it computed, if it got that far), and
\* its effects on the canvases and on the timer queue.
analyzeFrame(capturing, ready, srcWidth, srcHeight) ==
    LET steps == FrameSteps(capturing, ready, selectedZone, srcWidth, srcHeight)
    IN  /\ cycle' = Some([capturing |-> capturing,
                          ready |-> ready,
                          zone |-> selectedZone,
                          hidden |-> hidden,
                          rect |-> IF capturing /\ ready
                                   THEN Some(AnalysisRect(selectedZone, srcWidth, srcHeight))
                                   ELSE None,
                          steps |-> steps])
        /\ scopeCanvas' = [s \in Scopes |->
                              IF Has(steps, Renderer[s]) THEN "drawn" ELSE scopeCanvas[s]]
        /\ IF Has(steps, "setTimeout")
           THEN animationFrameId' = 1 /\ timers' = timers + 1
           ELSE UNCHANGED <<animationFrameId, timers>>

\* the sizes the captured surface may have when a cycle reads them
SrcSizes == {<<200, 100>>, <<1162, 400>>, <<3840, 8>>}

(***************************************************************************)
(* AnyScope: capture (app.js:245-325) and the browser's events.            *)
(***************************************************************************)
Streams == 1..MaxStreams

selectionVars == <<selectedZone, isSelecting, selectionStart, resetZoneButtonDisabled>>
captureVars == <<isCapturing, mediaStream, srcObject, startButtonDisabled,
                 stopButtonDisabled, tracks, pendingStarts, awaitingLoaded, videoReady>>
loopVars == <<animationFrameId, timers, frames, scopeCanvas>>

\* stopCapture() without the reset of the zone selection
stopCaptureKeepingZone(trk) ==
    /\ IF animationFrameId # 0
       THEN /\ animationFrameId' = 0
            /\ \E hit \in {0, 1} : hit <= frames /\ frames' = frames - hit
       ELSE UNCHANGED <<animationFrameId, frames>>
    /\ IF mediaStream # 0
       THEN tracks' = [trk EXCEPT ![mediaStream] = IF @ = "live" THEN "ended" ELSE @]
       ELSE tracks' = trk
    /\ mediaStream' = 0
    /\ srcObject' = 0
    /\ videoReady' = FALSE
    /\ startButtonDisabled' = FALSE
    /\ stopButtonDisabled' = TRUE
    /\ isCapturing' = FALSE
    /\ scopeCanvas' = [s \in Scopes |-> "black"]
    /\ cycle' = None
    /\ UNCHANGED <<selectedZone, resetZoneButtonDisabled, isSelecting, selectionStart,
                   hidden, pendingStarts, awaitingLoaded, timers>>

\* stopCapture().  trk is the state of the tracks when it is called.
\* animationFrameId holds a handle of setTimeout, but is passed to
\* cancelAnimationFrame: the timeout stays pending, and the call cancels an
\* animation-frame callback only if one happens to carry the same number.
stopCapture(trk) ==
    /\ IF animationFrameId # 0
       THEN /\ animationFrameId' = 0
            /\ \E hit \in {0, 1} : hit <= frames /\ frames' = frames - hit
       ELSE UNCHANGED <<animationFrameId, frames>>
    /\ IF mediaStream # 0
       THEN tracks' = [trk EXCEPT ![mediaStream] = IF @ = "live" THEN "ended" ELSE @]
       ELSE tracks' = trk
    /\ mediaStream' = 0
    /\ srcObject' = 0
    /\ videoReady' = FALSE
    /\ startButtonDisabled' = FALSE
    /\ stopButtonDisabled' = TRUE
    /\ isCapturing' = FALSE
    /\ selectedZone' = None
    /\ resetZoneButtonDisabled' = TRUE
    /\ scopeCanvas' = [s \in Scopes |-> "black"]
    /\ cycle' = None
    /\ UNCHANGED <<isSelecting, selectionStart, hidden, pendingStarts,
                   awaitingLoaded, timers>>

\* click on the start button: startCapture() up to its first await
ClickStart ==
    /\ ~startButtonDisabled
    /\ pendingStarts < MaxStarts
    /\ pendingStarts' = pendingStarts + 1
    /\ cycle' = None
    /\ UNCHANGED <<isCapturing, mediaStream, srcObject, startButtonDisabled,
                   stopButtonDisabled, tracks, awaitingLoaded, videoReady,
                   selectionVars, loopVars, hidden>>

\* getDisplayMedia resolves with stream s: startCapture up to its second await
MediaGranted(s) ==
    /\ pendingStarts > 0
    /\ tracks[s] = "new"
    /\ \A t \in Streams : t < s => tracks[t] # "new"
    /\ pendingStarts' = pendingStarts - 1
    /\ tracks' = [tracks EXCEPT ![s] = "live"]
    /\ mediaStream' = s
    /\ srcObject' = s
    /\ videoReady' = FALSE
    /\ awaitingLoaded' = TRUE
    /\ cycle' = None
    /\ UNCHANGED <<isCapturing, startButtonDisabled, stopButtonDisabled,
                   selectionVars, loopVars, hidden>>

\* a rejection that stores the failed request's result in this.mediaStream
MediaDeniedClearingStream ==
    /\ pendingStarts > 0
    /\ pendingStarts' = pendingStarts - 1
    /\ cycle' = None
    /\ alerted' = TRUE
    /\ mediaStream' = 0
    /\ UNCHANGED <<isCapturing, srcObject, startButtonDisabled,
                   stopButtonDisabled, tracks, awaitingLoaded, videoReady,
                   selectionVars, loopVars, hidden>>

\* getDisplayMedia rejects: the catch block reports the error
MediaDenied ==
    /\ pendingStarts > 0
    /\ pendingStarts' = pendingStarts - 1
    /\ cycle' = None
    /\ alerted' = TRUE
    /\ UNCHANGED <<isCapturing, mediaStream, srcObject, startButtonDisabled,
                   stopButtonDisabled, tracks, awaitingLoaded, videoReady,
                   selectionVars, loopVars, hidden>>

\* loadeddata delivered to a startCapture still waiting for it although the
\* video's source has been cleared in the meantime
LoadedDataAfterClear(srcWidth, srcHeight) ==
    /\ ~videoReady
    /\ awaitingLoaded
    /\ timers + frames < MaxLoops
    /\ videoReady' = TRUE
    /\ awaitingLoaded' = FALSE
    /\ startButtonDisabled' = TRUE
    /\ stopButtonDisabled' = FALSE
    /\ isCapturing' = TRUE
    /\ analyzeFrame(TRUE, TRUE, srcWidth, srcHeight)
    /\ alerted' = Has(FrameSteps(TRUE, TRUE, selectedZone, srcWidth, srcHeight), "throw")
    /\ UNCHANGED <<mediaStream, srcObject, tracks, pendingStarts, frames,
                   selectionVars, hidden>>

\* The video fires loadeddata for its current stream.  A startCapture
\* suspended on it runs to its end: the UI update, then startAnalysisLoop,
\* which calls analyzeFrame at once (an exception of that call is caught by
\* startCapture's catch block).
LoadedData(srcWidth, srcHeight) ==
    /\ srcObject # 0
    /\ tracks[srcObject] = "live"
    /\ ~videoReady
    /\ videoReady' = TRUE
    /\ IF awaitingLoaded
       THEN /\ timers + frames < MaxLoops
            /\ awaitingLoaded' = FALSE
            /\ startButtonDisabled' = TRUE
            /\ stopButtonDisabled' = FALSE
            /\ isCapturing' = TRUE
            /\ analyzeFrame(TRUE, TRUE, srcWidth, srcHeight)
            /\ alerted' = Has(FrameSteps(TRUE, TRUE, selectedZone, srcWidth, srcHeight),
                              "throw")
       ELSE /\ cycle' = None
            /\ alerted' = FALSE
            /\ UNCHANGED <<awaitingLoaded, startButtonDisabled, stopButtonDisabled,
                           isCapturing, scopeCanvas, animationFrameId, timers>>
    /\ UNCHANGED <<mediaStream, srcObject, tracks, pendingStarts, frames,
                   selectionVars, hidden>>

\* the captured track ends (the user stops sharing in the browser's UI): the
\* listener registered by startCapture calls stopCapture
TrackEnded(s) ==
    /\ tracks[s] = "live"
    /\ stopCapture([tracks EXCEPT ![s] = "ended"])

\* click on the stop button
ClickStop ==
    /\ ~stopButtonDisabled
    /\ stopCapture(tracks)

\* the 66 ms timeout expires: its callback calls requestAnimationFrame
TimerFire ==
    /\ timers > 0
    /\ timers' = timers - 1
    /\ frames' = frames + 1
    /\ cycle' = None
    /\ UNCHANGED <<captureVars, selectionVars, animationFrameId, scopeCanvas, hidden>>

\* a cycle that consumes the zone: it analyses the zone once, then drops it
FrameFireDroppingZone(srcWidth, srcHeight) ==
    /\ frames > 0
    /\ frames' = frames - 1
    /\ analyzeFrame(isCapturing, videoReady, srcWidth, srcHeight)
    /\ selectedZone' = None
    /\ UNCHANGED <<captureVars, isSelecting, selectionStart,
                   resetZoneButtonDisabled, hidden>>

\* the browser runs a pending animation-frame callback: analyzeFrame
FrameFire(srcWidth, srcHeight) ==
    /\ frames > 0
    /\ frames' = frames - 1
    /\ analyzeFrame(isCapturing, videoReady, srcWidth, srcHeight)
    /\ UNCHANGED <<captureVars, selectionVars, hidden>>

\* mousedown / touchstart on the selection canvas
SelectionStart(e) ==
    /\ onSelectionStart(e)
    /\ cycle' = None
    /\ UNCHANGED <<captureVars, loopVars, hidden>>

\* mousemove / touchmove
SelectionMove(e) ==
    /\ onSelectionMove(e)
    /\ cycle' = None
    /\ UNCHANGED <<captureVars, loopVars, hidden>>

\* mouseup / mouseleave / touchend
SelectionEnd ==
    /\ onSelectionEnd
    /\ cycle' = None
    /\ UNCHANGED <<captureVars, loopVars, hidden>>

\* click on the reset-zone button
ClickResetZone ==
    /\ ~resetZoneButtonDisabled
    /\ resetZone
    /\ cycle' = None
    /\ UNCHANGED <<captureVars, loopVars, hidden>>

\* the checkboxes the user changes
ToggledScopes == {"waveform", "vectorscope"}

\* change of a scope's checkbox: toggles the container's "hidden" class
Toggle(s) ==
    /\ hidden' = IF s \in hidden THEN hidden \ {s} ELSE hidden \cup {s}
    /\ cycle' = None
    /\ UNCHANGED <<captureVars, selectionVars, loopVars>>

\* the state after new AnyScope() (constructor, app.js:7-43); the buttons and
\* checkboxes are as the page's markup declares them
AppInit ==
    /\ isCapturing = FALSE
    /\ mediaStream = 0
    /\ srcObject = 0
    /\ animationFrameId = 0
    /\ selectedZone = None
    /\ isSelecting = FALSE
    /\ selectionStart = None
    /\ startButtonDisabled = FALSE
    /\ stopButtonDisabled = TRUE
    /\ resetZoneButtonDisabled = TRUE
    /\ hidden = {}
    /\ scopeCanvas = [s \in Scopes |-> "blank"]
    /\ tracks = [s \in Streams |-> "new"]
    /\ pendingStarts = 0
    /\ awaitingLoaded = FALSE
    /\ videoReady = FALSE
    /\ alerted = FALSE
    /\ timers = 0
    /\ frames = 0
    /\ cycle = None

(***************************************************************************)
(* VideoScopes.analyze (scopes.js:26-39) on bounded inputs.                *)
(***************************************************************************)
\* The scope canvases are sized by the page; the model draws their sizes.
CanvasSizes ==
    {[waveform |-> <<3, 4>>, parade |-> <<6, 4>>, vectorscope |-> 44],
     [waveform |-> <<6, 3>>, parade |-> <<10, 2>>, vectorscope |-> 47],
     [waveform |-> <<2, 2>>, parade |-> <<3, 2>>, vectorscope |-> 2]}

\* width x height of frames scanned for their sampling alone
LargeSizes ==
    {<<320, 156>>, <<320, 157>>, <<250, 200>>, <<271, 369>>, <<250, 400>>,
     <<320, 312>>, <<320, 313>>, <<320, 468>>, <<320, 469>>, <<317, 473>>,
     <<320, 625>>, <<319, 627>>, <<320, 1080>>}

ScopeIdle ==
    /\ analysis = None
    /\ first = None
    /\ largeSampled = None
    /\ waveform = None
    /\ parade = None
    /\ vectorscope = None

\* analyze(imageData): calculateScopeData, then the renderers
Analyze ==
    /\ imageData # None
    /\ analysis = None
    /\ LET result == calculateScopeData(imageData[1].data, imageData[1].width,
                                        imageData[1].height)
       IN  /\ analysis' = Some(result)
           /\ waveform' = Some(renderWaveform(result.luminance,
                                              canvas.waveform[1], canvas.waveform[2]))
           /\ parade' = Some(renderParade(result.rgbColumns,
                                          canvas.parade[1], canvas.parade[2]))
           /\ vectorscope' = Some(renderVectorscope(result.colorPoints,
                                                    canvas.vectorscope))
    /\ UNCHANGED <<imageData, first, largeFrame, largeSampled, canvas>>
    /\ UNCHANGED appVars

\* the frames that may follow a scenario frame
NextFrames == {Uniform(3, 2, Gray), Rows(3, 2, Gray, Red)}

\* analyze(f) for the frame after the first, the canvases still showing the
\* renders of the first; first keeps the first frame and its analysis
AnalyzeNext(f) ==
    /\ analysis # None
    /\ first = None
    /\ imageData[1] \in ScenarioFrames
    /\ imageData' = Some(f)
    /\ first' = Some([frame |-> imageData[1], result |-> analysis[1],
                      interleaved |-> f # imageData[1]])
    /\ LET result == calculateScopeData(f.data, f.width, f.height)
       IN  /\ analysis' = Some(result)
           /\ waveform' = Some(renderWaveform(result.luminance,
                                              canvas.waveform[1], canvas.waveform[2]))
           /\ parade' = Some(renderParade(result.rgbColumns,
                                          canvas.parade[1], canvas.parade[2]))
           /\ vectorscope' = Some(renderVectorscope(result.colorPoints,
                                                    canvas.vectorscope))
    /\ UNCHANGED <<largeFrame, largeSampled, canvas>>
    /\ UNCHANGED appVars

\* the scan's sampling test over a large frame
ScanLarge ==
    /\ largeFrame # None
    /\ largeSampled = None
    /\ largeSampled' = Some(SampledCount(largeFrame[1], largeFrame[2]))
    /\ UNCHANGED <<imageData, analysis, first, largeFrame, canvas,
                   waveform, parade, vectorscope>>
    /\ UNCHANGED appVars

ScopeInit ==
    /\ AppInit
    /\ ScopeIdle
    /\ canvas \in CanvasSizes
    /\ \/ imageData \in {Some(f) : f \in Frames} /\ largeFrame = None
       \/ imageData = None /\ largeFrame \in LargeSizes

ScopeNext == Analyze \/ ScanLarge \/ \E f \in NextFrames : AnalyzeNext(f)

ScopeSpec == ScopeInit /\ [][ScopeNext]_vars

(***************************************************************************)
(* analyze on canvases of many sizes.                                      *)
(***************************************************************************)
White == [r |-> 255, g |-> 255, b |-> 255]

PlotHeights == {1, 2, 3, 5, 16, 100, 255, 256, 257, 300, 1080}

\* narrow canvases of every height, and wide ones of small height
PlotCanvases ==
    {[waveform |-> <<2, h>>, parade |-> <<3, h>>, vectorscope |-> 2] : h \in PlotHeights}
        \cup {[waveform |-> <<w, 3>>, parade |-> <<3 * w + 1, 2>>, vectorscope |-> 2] :
                 w \in {1, 7, 100, 320}}

PlotFrames ==
    {Rows(3, 2, White, Black), Columns(7, 3, Black, White, Gray),
     Columns(8, 2, Gray, Black, Red), Uniform(1, 1, White), Uniform(1, 2, Black),
     Rows(4, 4, Red, Black), OneOff(2, 6, Gray, White), Uniform(6, 3, White)}

PlotInit ==
    /\ AppInit
    /\ ScopeIdle
    /\ canvas \in PlotCanvases
    /\ imageData \in {Some(f) : f \in PlotFrames}
    /\ largeFrame = None

PlotNext == Analyze

PlotSpec == PlotInit /\ [][PlotNext]_vars

(***************************************************************************)
(* calculateScopeData called frame after frame.                            *)
(***************************************************************************)
RepeatFrames ==
    ScenarioFrames \cup {f \in SmallFrames : f.width * f.height <= 2}

Calculate(f) ==
    /\ imageData' = Some(f)
    /\ analysis' = Some(calculateScopeData(f.data, f.width, f.height))
    /\ first' = IF first = None
                THEN Some([frame |-> f, result |-> analysis'[1], interleaved |-> FALSE])
                ELSE Some([first[1] EXCEPT !.interleaved = @ \/ f # first[1].frame])
    /\ UNCHANGED <<largeFrame, largeSampled, canvas, waveform, parade, vectorscope>>
    /\ UNCHANGED appVars

RepeatInit ==
    /\ AppInit
    /\ ScopeIdle
    /\ imageData = None
    /\ largeFrame = None
    /\ canvas \in CanvasSizes

RepeatNext == \E f \in RepeatFrames : Calculate(f)

RepeatSpec == RepeatInit /\ [][RepeatNext]_vars

(***************************************************************************)
(* calculateScopeData on single pixels: frames of width 1 and height 1.    *)
(***************************************************************************)
LumLevels == {0, 1, 2, 64, 127, 128, 129, 200, 254, 255}

\* some of the ties whose double sum is exactly the half
TiesAtHalf == {<<0, 41, 44>>, <<0, 42, 228>>, <<0, 69, 196>>}

\* the r, g, b drawn: a grid, every gray, and the ties
PixelInputs ==
    (LumLevels \X LumLevels \X LumLevels)
        \cup {<<k, k, k>> : k \in 0..(HistogramBuckets - 1)}
        \cup TiesBelowHalf \cup TiesAtHalf

PixelFrame(t) == Frame(<<[r |-> t[1], g |-> t[2], b |-> t[3]]>>, 1, 1)

\* calculateScopeData(data, width, height) on the frame drawn
Scan ==
    /\ imageData # None
    /\ analysis = None
    /\ analysis' = Some(calculateScopeData(imageData[1].data, imageData[1].width,
                                           imageData[1].height))
    /\ UNCHANGED <<imageData, first, largeFrame, largeSampled, canvas,
                   waveform, parade, vectorscope>>
    /\ UNCHANGED appVars

PixelInit ==
    /\ AppInit
    /\ ScopeIdle
    /\ imageData \in {Some(PixelFrame(t)) : t \in PixelInputs}
    /\ largeFrame = None
    /\ canvas = [waveform |-> <<3, 4>>, parade |-> <<6, 4>>, vectorscope |-> 44]

PixelNext == Scan

PixelSpec == PixelInit /\ [][PixelNext]_vars

(***************************************************************************)
(* The application: every handler and browser event of AnyScope.           *)
(***************************************************************************)
Init ==
    /\ AppInit
    /\ ScopeIdle
    /\ imageData = None
    /\ largeFrame = None
    /\ canvas = [waveform |-> <<3, 4>>, parade |-> <<6, 4>>, vectorscope |-> 44]

\* a step that shows no alert
Quiet == alerted' = FALSE

Next ==
    \/ ClickStart /\ Quiet /\ UNCHANGED scopeVars
    \/ \E s \in Streams : MediaGranted(s) /\ Quiet /\ UNCHANGED scopeVars
    \/ MediaDenied /\ UNCHANGED scopeVars
    \/ \E size \in SrcSizes : LoadedData(size[1], size[2]) /\ UNCHANGED scopeVars
    \/ \E s \in Streams : TrackEnded(s) /\ Quiet /\ UNCHANGED scopeVars
    \/ ClickStop /\ Quiet /\ UNCHANGED scopeVars
    \/ TimerFire /\ Quiet /\ UNCHANGED scopeVars
    \/ \E size \in SrcSizes : FrameFire(size[1], size[2]) /\ Quiet /\ UNCHANGED scopeVars
    \/ \E e \in PointerOffsets : SelectionStart(e) /\ Quiet /\ UNCHANGED scopeVars
    \/ \E e \in PointerOffsets : SelectionMove(e) /\ Quiet /\ UNCHANGED scopeVars
    \/ SelectionEnd /\ Quiet /\ UNCHANGED scopeVars
    \/ ClickResetZone /\ Quiet /\ UNCHANGED scopeVars
    \/ \E s \in ToggledScopes : Toggle(s) /\ Quiet /\ UNCHANGED scopeVars

Spec == Init /\ [][Next]_vars

(***************************************************************************)
(* Properties of calculateScopeData and of the renderers.                  *)
(***************************************************************************)
\* f[lo] + ... + f[hi], by halves
RECURSIVE SumRange(_, _, _)
SumRange(f, lo, hi) ==
    IF lo > hi THEN 0
    ELSE IF lo = hi THEN f[lo]
    ELSE LET mid == (lo + hi) \div 2
         IN  SumRange(f, lo, mid) + SumRange(f, mid + 1, hi)
SumTo(f, n) == SumRange(f, 0, n)

PixelCount == imageData[1].width * imageData[1].height

\* C1: after calculateScopeData on a buffer of width >= 1 and height >= 1, the
\* entries of histogram.r sum to width * height, and so do, each on its own,
\* those of histogram.g, histogram.b and histogram.lum.
C1_HistogramTotals ==
    (imageData # None /\ analysis # None) =>
        LET h == analysis[1].histogram
        IN  /\ SumTo(h.r, HistogramBuckets - 1) = PixelCount
            /\ SumTo(h.g, HistogramBuckets - 1) = PixelCount
            /\ SumTo(h.b, HistogramBuckets - 1) = PixelCount
            /\ SumTo(h.lum, HistogramBuckets - 1) = PixelCount

\* a 7 x 3 frame of three colours has been analysed
C1_Witness ==
    /\ imageData # None
    /\ analysis # None
    /\ imageData[1].width = 7
    /\ imageData[1].height = 3
    /\ analysis[1].histogram.lum[0] = 9
    /\ analysis[1].histogram.r[255] = 6

\* the raster indices divisible by stride, in increasing order
RECURSIVE EveryNth(_, _, _)
EveryNth(from, n, stride) ==
    IF from >= n THEN <<>> ELSE <<from>> \o EveryNth(from + stride, n, stride)

\* C4: with stride = max(1, floor(width * height / 50000)), colorPoints holds
\* exactly the pixels whose raster index is divisible by stride, in raster
\* order, and the number of colour points differs from
\* floor(width * height / stride) by at most 1.
C4_Sampling ==
    /\ (imageData # None /\ analysis # None) =>
          LET stride == Max(1, PixelCount \div VectorSampleBudget)
              picked == EveryNth(0, PixelCount, stride)
              points == analysis[1].colorPoints
              quota == PixelCount \div stride
          IN  /\ Len(points) = Len(picked)
              /\ \A k \in 1..Len(points) :
                    LET px == imageData[1].data[picked[k] + 1]
                    IN  /\ points[k].r = px.r
                        /\ points[k].g = px.g
                        /\ points[k].b = px.b
              /\ Len(points) - quota \in {-1, 0, 1}
    /\ (largeFrame # None /\ largeSampled # None) =>
          LET n == largeFrame[1] * largeFrame[2]
              stride == Max(1, n \div VectorSampleBudget)
          IN  largeSampled[1] - (n \div stride) \in {-1, 0, 1}

\* a frame with a stride above 1 whose count is one more than the quotient
C4_Witness ==
    /\ largeFrame # None
    /\ largeSampled # None
    /\ (largeFrame[1] * largeFrame[2]) \div VectorSampleBudget = 4
    /\ largeSampled[1] = (largeFrame[1] * largeFrame[2]) \div 4 + 1

\* C5: each parade sequence has floor(width / 3) columns; the pixel at column
\* x gives its raw channel values to column floor(x / 3) when that is below
\* floor(width / 3) and is dropped otherwise, so every column holds 3 * height
\* values and (width mod 3) * height pixels are dropped.
C5_ParadeColumns ==
    (imageData # None /\ analysis # None) =>
        LET width == imageData[1].width
            height == imageData[1].height
            data == imageData[1].data
            cols == analysis[1].rgbColumns
            Held(ch) == SumTo([c \in 0..(width \div 3) |->
                                  IF c = 0 THEN 0 ELSE Len(ch[c])], width \div 3)
        IN  /\ \A ch \in {cols.r, cols.g, cols.b} :
                  /\ Len(ch) = width \div 3
                  /\ \A c \in 1..Len(ch) : Len(ch[c]) = 3 * height
                  /\ 3 * PixelCount - 3 * Held(ch) = 3 * (width % 3) * height
            /\ \A c \in 0..(width \div 3 - 1) : \A y \in 0..(height - 1) : \A j \in 0..2 :
                  LET px == data[y * width + 3 * c + j + 1]
                  IN  /\ cols.r[c + 1][3 * y + j + 1] = px.r
                      /\ cols.g[c + 1][3 * y + j + 1] = px.g
                      /\ cols.b[c + 1][3 * y + j + 1] = px.b

\* a 7 x 3 frame: two parade columns of nine values, one pixel column dropped
C5_Witness ==
    /\ imageData # None
    /\ analysis # None
    /\ imageData[1].width = 7
    /\ imageData[1].height = 3
    /\ Len(analysis[1].rgbColumns.g) = 2
    /\ Len(analysis[1].rgbColumns.g[2]) = 9

Normalised(rendered, gain) ==
    LET map == rendered.map
        max == rendered.maxIntensity
    IN  /\ rendered.gain = gain
        /\ max >= 1
        /\ \A i \in DOMAIN map : map[i] <= max
        /\ max = 1 \/ \E i \in DOMAIN map : map[i] = max
        /\ \A i \in DOMAIN map :
              LET cell == rendered.cells[i]
              IN  IF map[i] = 0 THEN ~cell.painted
                  ELSE /\ cell.painted
                       /\ cell.den = max
                       /\ cell.num = IF map[i] * gain >= max THEN max ELSE map[i] * gain
                       /\ 0 < cell.num
                       /\ cell.num <= cell.den

\* C10: in every waveform, parade and vectorscope render the normalisation
\* maximum is max(1, largest counter), never zero, also for an empty map;
\* every cell with a non-zero counter gets intensity
\* min(1, (count / max) * gain), which lies in (0, 1], with one gain and one
\* maximum for the whole map; every cell with counter zero keeps the
\* background.
C10_Normalisation ==
    /\ waveform # None => Normalised(waveform[1], WaveformGain)
    /\ parade # None =>
          /\ Normalised(parade[1].r, ParadeGain)
          /\ Normalised(parade[1].g, ParadeGain)
          /\ Normalised(parade[1].b, ParadeGain)
    /\ vectorscope # None => Normalised(vectorscope[1], VectorscopeGain)

\* a render with empty parade maps and a vectorscope that has cells below and
\* at full intensity
C10_Witness ==
    /\ parade # None
    /\ vectorscope # None
    /\ \A i \in DOMAIN parade[1].g.map : parade[1].g.map[i] = 0
    /\ parade[1].g.maxIntensity = 1
    /\ \E i \in DOMAIN vectorscope[1].cells :
          /\ vectorscope[1].cells[i].painted
          /\ vectorscope[1].cells[i].num < vectorscope[1].cells[i].den
    /\ \E i \in DOMAIN vectorscope[1].cells :
          /\ vectorscope[1].cells[i].painted
          /\ vectorscope[1].cells[i].num = vectorscope[1].cells[i].den

(***************************************************************************)
(* Properties of the application.                                          *)
(***************************************************************************)
Pending == timers + frames

C3_ScheduleLast ==
    [][/\ timers' > timers =>
             /\ timers' = timers + 1
             /\ cycle' # None
             /\ cycle'[1].steps[Len(cycle'[1].steps)] = "setTimeout"
       /\ cycle' # None =>
             LET steps == cycle'[1].steps
             IN  /\ \A k \in 1..Len(steps) : steps[k] = "setTimeout" => k = Len(steps)
                 /\ Has(steps, "getImageData") /\ ~Has(steps, "throw") =>
                       /\ Len(steps) = Len(AnalyzeCalls) + 3
                       /\ SubSeq(steps, 3, Len(steps) - 1) = AnalyzeCalls]_vars

\* a full cycle has run and has scheduled the next one
C3_Witness ==
    /\ cycle # None
    /\ Has(cycle[1].steps, "renderHistogram")
    /\ cycle[1].steps[Len(cycle[1].steps)] = "setTimeout"
    /\ timers >= 1

\* C7: when the frame to analyse in a cycle has zero width or zero height, the
\* cycle is skipped without an exception leaving it, and the loop still
\* schedules the next cycle.
C7_EmptyFrameSkipped ==
    (/\ cycle # None
     /\ Has(cycle[1].steps, "drawImage")
     /\ cycle[1].rect[1].analysisWidth = 0 \/ cycle[1].rect[1].analysisHeight = 0) =>
        /\ ~Has(cycle[1].steps, "throw")
        /\ ~Has(cycle[1].steps, "calculateScopeData")
        /\ cycle[1].steps[Len(cycle[1].steps)] = "setTimeout"

\* C8: with a crop region selected, the analysed source rectangle is at least
\* 10 x 10, the analysis width is min(zoneW, 320), at most 320, and the
\* analysis height is the zone height scaled by the same factor, rounded down.
C8_AnalysisSize ==
    (/\ cycle # None
     /\ Has(cycle[1].steps, "drawImage")
     /\ cycle[1].zone # None) =>
        LET rect == cycle[1].rect[1]
        IN  /\ rect.zoneW >= 10
            /\ rect.zoneH >= 10
            /\ rect.analysisWidth <= 320
            /\ rect.analysisWidth = Min(rect.zoneW, 320)
            /\ rect.analysisHeight = (rect.zoneH * Min(rect.zoneW, 320)) \div rect.zoneW

\* C9: in every cycle a scope's renderer is invoked only if the scope's
\* visibility flag is true.
C9_HiddenNotRendered ==
    cycle # None =>
        \A s \in Scopes : Has(cycle[1].steps, Renderer[s]) => s \notin cycle[1].hidden

(***************************************************************************)
(* Further properties of calculateScopeData and of the renderers.          *)
(***************************************************************************)
\* every pixel of the frame is the same gray
IsUniformGray(frame) ==
    \A i \in DOMAIN frame.data :
        /\ frame.data[i] = frame.data[1]
        /\ frame.data[i].r = frame.data[i].g
        /\ frame.data[i].g = frame.data[i].b

\* C11: for a uniform gray image (r = g = b = k at every pixel), any analysis
\* width and any canvas size, every waveform column holds only
\* luminance(k, k, k), and renderWaveform plots one horizontal row filled
\* across the full canvas width: every x of that row has a non-zero counter
\* and no other row has one.
C11_UniformGrayRow ==
    (/\ imageData # None
     /\ analysis # None
     /\ waveform # None
     /\ IsUniformGray(imageData[1])) =>
        LET k == imageData[1].data[1].r
            width == canvas.waveform[1]
            height == canvas.waveform[2]
            map == waveform[1].map
        IN  /\ \A c \in DOMAIN analysis[1].luminance :
                  \A j \in DOMAIN analysis[1].luminance[c] :
                      analysis[1].luminance[c][j] = Luminance(k, k, k)
            /\ \E row \in 0..(height - 1) :
                  \A y \in 0..(height - 1) : \A x \in 0..(width - 1) :
                      (map[y * width + x] > 0) <=> (y = row)

\* the frame analysed is the single pixel t
IsPixel(t) == imageData = Some(PixelFrame(t))

\* C12: for every 8-bit r, g, b the luminance
\* round(0.2126 r + 0.7152 g + 0.0722 b) is an integer in 0..255, a valid
\* histogram bucket, with luminance(0, 0, 0) = 0 and
\* luminance(255, 255, 255) = 255.
C12_LuminanceRange ==
    (imageData # None /\ analysis # None) =>
        /\ \A c \in DOMAIN analysis[1].luminance :
              \A j \in DOMAIN analysis[1].luminance[c] :
                  analysis[1].luminance[c][j] \in 0..255
        /\ PixelCount = 1 =>
              LET px == imageData[1].data[1]
                  lum == analysis[1].luminance[1][1]
                  sum == 2126 * px.r + 7152 * px.g + 722 * px.b
              IN  /\ 10000 * lum - 5000 <= sum
                  /\ sum <= 10000 * lum + 5000
                  /\ analysis[1].histogram.lum[lum] = 1
        /\ IsPixel(<<0, 0, 0>>) => analysis[1].luminance[1][1] = 0
        /\ IsPixel(<<255, 255, 255>>) => analysis[1].luminance[1][1] = 255

\* the white pixel has been analysed: luminance 255, the last bucket
C12_Witness ==
    /\ IsPixel(<<255, 255, 255>>)
    /\ analysis # None
    /\ analysis[1].luminance[1][1] = 255
    /\ analysis[1].histogram.lum[255] = 1

\* |v - 128| <= 1 for a chroma value held in units of 1 / ChromaScale
NearNeutral(v) ==
    /\ v - 128 * ChromaScale <= ChromaScale
    /\ 128 * ChromaScale - v <= ChromaScale

\* C13: for a uniform gray image (r = g = b = k, any k in 0..255) every
\* sampled colour point has cb = 128 and cr = 128 within a tolerance of 1, and
\* is plotted at the centre of the vectorscope.
C13_GrayIsNeutral ==
    (imageData # None /\ analysis # None /\ IsUniformGray(imageData[1])) =>
        /\ Len(analysis[1].colorPoints) = PixelCount
        /\ \A j \in DOMAIN analysis[1].colorPoints :
              LET point == analysis[1].colorPoints[j]
              IN  /\ NearNeutral(point.cb)
                  /\ NearNeutral(point.cr)
                  /\ VectorX(point.cb, canvas.vectorscope) = canvas.vectorscope \div 2
                  /\ VectorY(point.cr, canvas.vectorscope) = canvas.vectorscope \div 2

\* the gray of level 37 has been analysed
C13_Witness ==
    /\ IsPixel(<<37, 37, 37>>)
    /\ analysis # None
    /\ Len(analysis[1].colorPoints) = 1
    /\ analysis[1].colorPoints[1].cb = 128 * ChromaScale
    /\ analysis[1].colorPoints[1].cr = 128 * ChromaScale

\* the pixels of the frame analysed that satisfy Test
CountPixels(Test(_)) ==
    Cardinality({i \in DOMAIN imageData[1].data : Test(imageData[1].data[i])})

\* C14: histogram.c[v] is the number of pixels whose channel c equals v, for
\* c in {r, g, b} and v in 0..255, and histogram.lum[v] is the number of
\* pixels whose luminance equals v.  A 4 x 4 buffer of rows alternating pure
\* red and pure black gives r[255] = 8, r[0] = 8, g[0] = 16, b[0] = 16,
\* lum[54] = 8, lum[0] = 8; an image that is (200, 0, 0) everywhere gives
\* r[200] = g[0] = b[0] = width * height.
C14_HistogramCounts ==
    (imageData # None /\ analysis # None) =>
        LET h == analysis[1].histogram
        IN  /\ \A v \in 0..255 :
                  LET IsR(px) == px.r = v
                      IsG(px) == px.g = v
                      IsB(px) == px.b = v
                      IsLum(px) == Luminance(px.r, px.g, px.b) = v
                  IN  /\ h.r[v] = CountPixels(IsR)
                      /\ h.g[v] = CountPixels(IsG)
                      /\ h.b[v] = CountPixels(IsB)
                      /\ h.lum[v] = CountPixels(IsLum)
            /\ imageData[1] = Rows(4, 4, Red, Black) =>
                  /\ h.r[255] = 8 /\ h.r[0] = 8
                  /\ h.g[0] = 16 /\ h.b[0] = 16
                  /\ h.lum[54] = 8 /\ h.lum[0] = 8
            /\ imageData[1] = Uniform(6, 3, [r |-> 200, g |-> 0, b |-> 0]) =>
                  /\ h.r[200] = 18 /\ h.g[0] = 18 /\ h.b[0] = 18

\* the 4 x 4 buffer of red and black rows has been analysed
C14_Witness ==
    /\ imageData = Some(Rows(4, 4, Red, Black))
    /\ analysis # None
    /\ analysis[1].histogram.r[255] = 8
    /\ analysis[1].histogram.lum[54] = 8

\* C15: calculateScopeData returns exactly width waveform (luminance)
\* columns, and column x holds exactly height values: the luminance of every
\* pixel of column x, one per row, top to bottom.
C15_WaveformColumns ==
    (imageData # None /\ analysis # None) =>
        LET width == imageData[1].width
            height == imageData[1].height
            data == imageData[1].data
            columns == analysis[1].luminance
        IN  /\ Len(columns) = width
            /\ \A x \in 0..(width - 1) :
                  /\ Len(columns[x + 1]) = height
                  /\ \A y \in 0..(height - 1) :
                        LET px == data[y * width + x + 1]
                        IN  columns[x + 1][y + 1] = Luminance(px.r, px.g, px.b)

\* a 5 x 2 frame: five columns of two values; the second column is gray
C15_Witness ==
    /\ imageData = Some(Columns(5, 2, Red, Gray, Black))
    /\ analysis # None
    /\ Len(analysis[1].luminance) = 5
    /\ analysis[1].luminance[2] = <<128, 128>>

(***************************************************************************)
(* Further properties of the application.                                  *)
(***************************************************************************)
\* C16: an analysis cycle reads the crop region (selectedZone) at its start
\* and never writes it, and never writes the visibility of a scope: across
\* every cycle selectedZone and the visibility of every scope are unchanged,
\* and the zone the cycle used is the one selected when it started.
C16_CycleKeepsSettings ==
    [][cycle' # None =>
          /\ selectedZone' = selectedZone
          /\ hidden' = hidden
          /\ cycle'[1].zone = selectedZone
          /\ cycle'[1].hidden = hidden]_vars

\* a full cycle has run with a zone selected and a scope hidden
C16_Witness ==
    /\ cycle # None
    /\ Has(cycle[1].steps, "renderVectorscope")
    /\ selectedZone # None
    /\ cycle[1].zone = selectedZone
    /\ hidden = {"vectorscope"}

\* |a - b| <= 1
Adjacent(a, b) == a - b \in {-1, 0, 1}

C18_SingleContinuation == Pending <= 1

(***************************************************************************)
(* The application under the browser's scheduling: a timeout that is due   *)
(* fires, and a requested animation frame is delivered (app.js:381-383).   *)
(***************************************************************************)
LiveSpec ==
    /\ Init
    /\ [][Next]_vars
    /\ WF_vars(TimerFire /\ Quiet /\ UNCHANGED scopeVars)
    /\ WF_vars(\E size \in SrcSizes :
                  FrameFire(size[1], size[2]) /\ Quiet /\ UNCHANGED scopeVars)

\* an execution of analyzeFrame that found isCapturing true has just ended
CycleRan == cycle # None /\ cycle[1].capturing

\* C19: while isCapturing stays true, every execution of analyzeFrame
\* schedules a following execution (timer, then animation frame), so that
\* under fair scheduling analysis cycles recur again and again until
\* stopCapture: always, eventually, the capture is stopped or a cycle has run.
C19_CyclesRecur == []<>(~isCapturing \/ CycleRan)

\* C20: whenever isCapturing is false, selectedZone is null: stopCapture
\* clears the zone, and no sequence of selection events creates a zone while
\* the capture is stopped.
C20_NoZoneWhenStopped == ~isCapturing => selectedZone = None

\* C21: whenever isCapturing is true, mediaStream is non-null, under every
\* interleaving of a startCapture that is still awaiting (the permission or
\* the video's loadeddata) with a stopCapture triggered by an 'ended' event.
C21_CapturingHasStream == isCapturing => mediaStream # 0

\* a capture running on the second stream after the first stream's track has
\* ended and stopCapture has run for it
C21_Witness ==
    /\ isCapturing
    /\ mediaStream = 2
    /\ tracks[1] = "ended"
    /\ tracks[2] = "live"

\* C22: every media stream obtained by startCapture has all its tracks stopped
\* once a later stopCapture has completed: while the application holds no
\* stream (initially, and after every stopCapture) no acquired stream is live.
C22_NoStreamLeftRunning ==
    mediaStream = 0 => \A s \in Streams : tracks[s] # "live"

\* C23: when startCapture fails because the screen-capture request is
\* rejected, the application state is unchanged: isCapturing, mediaStream and
\* the video's source keep their values, no analysis loop is started, and the
\* start, stop and reset-zone buttons keep their enabled/disabled state.
C23_RejectionChangesNothing ==
    [][(alerted' /\ cycle' = None) =>
          UNCHANGED <<isCapturing, mediaStream, srcObject, animationFrameId,
                      timers, frames, startButtonDisabled, stopButtonDisabled,
                      resetZoneButtonDisabled, selectedZone, scopeCanvas>>]_vars

\* a second request rejected while the capture started by the first runs
C23_Witness ==
    /\ alerted
    /\ cycle = None
    /\ isCapturing
    /\ mediaStream # 0
    /\ Pending >= 1

\* the state stopCapture leaves behind
IdleAfterStop ==
    /\ ~isCapturing
    /\ mediaStream = 0
    /\ animationFrameId = 0
    /\ selectedZone = None
    /\ ~startButtonDisabled
    /\ stopButtonDisabled
    /\ resetZoneButtonDisabled
    /\ \A s \in Scopes : scopeCanvas[s] = "black"

\* C24: stopCapture always ends in the same idle state, from any prior state
\* (isCapturing false, mediaStream null, animationFrameId null, selectedZone
\* null, start button enabled, stop and reset-zone buttons disabled, all scopes
\* cleared), and a stopCapture that starts in that state changes nothing.
C24_StopIsIdempotent ==
    [][(ClickStop \/ \E s \in Streams : TrackEnded(s)) =>
          /\ IdleAfterStop'
          /\ IdleAfterStop =>
                UNCHANGED <<isCapturing, mediaStream, srcObject, animationFrameId,
                            selectedZone, isSelecting, selectionStart,
                            startButtonDisabled, stopButtonDisabled,
                            resetZoneButtonDisabled, hidden, scopeCanvas,
                            pendingStarts, awaitingLoaded, videoReady,
                            timers, frames>>]_vars

\* idle after a stopCapture that stopped the second stream, with the first
\* stream, acquired before it, still live: when its track ends, stopCapture
\* runs again in the idle state
C24_Witness ==
    /\ IdleAfterStop
    /\ tracks[1] = "live"
    /\ tracks[2] = "ended"

\* C25: after any sequence of selection events, resetZone and stopCapture, the
\* reset-zone button is enabled if and only if no selection drag is in
\* progress (isSelecting is false) and selectedZone is non-null.
C25_ResetButton ==
    ~resetZoneButtonDisabled <=> (~isSelecting /\ selectedZone # None)

\* the button enabled for a zone that was dragged across a stopCapture
C25_Witness ==
    /\ ~isCapturing
    /\ ~isSelecting
    /\ selectedZone # None
    /\ ~resetZoneButtonDisabled

\* C26: whenever no selection drag is in progress (isSelecting is false),
\* selectedZone is either null or a rectangle inside the unit square
\* (0 <= x, 0 <= y, x + width <= 1, y + height <= 1) with width >= 0.02 and
\* height >= 0.02; a drag that ends with a smaller rectangle leaves it null.
C26_ZoneGeometry ==
    (~isSelecting /\ selectedZone # None) =>
        LET zone == selectedZone[1]
        IN  /\ zone.x >= 0
            /\ zone.y >= 0
            /\ zone.x + zone.width <= SelectionCanvasSize
            /\ zone.y + zone.height <= SelectionCanvasSize
            /\ ~TooSmall(zone.width)
            /\ ~TooSmall(zone.height)

\* a finished drag from (2, 64) to the clamped corner of the canvas
C26_Witness ==
    /\ ~isSelecting
    /\ selectedZone = Some([x |-> 2, y |-> 64, width |-> 126, height |-> 64])

\* the number of entries of calls that are in names
RECURSIVE CountCalls(_, _)
CountCalls(calls, names) ==
    IF calls = <<>> THEN 0
    ELSE (IF Head(calls) \in names THEN 1 ELSE 0) + CountCalls(Tail(calls), names)

Graticules == {"drawGraticule", "drawVectorscopeGraticule"}

\* clear, graticule, the data layer, graticule, and nothing else
InRenderOrder(calls) ==
    /\ Len(calls) >= 5
    /\ calls[1] = "fillRect"
    /\ calls[2] \in Graticules
    /\ \A k \in 3..(Len(calls) - 1) : calls[k] \in {"getImageData", "putImageData"}
    /\ calls[Len(calls) - 1] = "putImageData"
    /\ calls[Len(calls)] = calls[2]
    /\ CountCalls(calls, Graticules) = 2
    /\ CountCalls(calls, {"fillRect"}) = 1

\* C27: every waveform, parade and vectorscope render performs its steps in
\* the order: clear the canvas to black, draw the graticule, plot the intensity
\* data, draw the graticule again; the graticule is drawn exactly twice, once
\* before and once after the data layer, and nothing is drawn after the second.
C27_RenderOrder ==
    /\ waveform # None => InRenderOrder(waveform[1].calls)
    /\ parade # None => InRenderOrder(parade[1].calls)
    /\ vectorscope # None => InRenderOrder(vectorscope[1].calls)

\* the three renders of a frame that paints cells in each of them
C27_Witness ==
    /\ waveform # None /\ parade # None /\ vectorscope # None
    /\ \E i \in DOMAIN waveform[1].cells : waveform[1].cells[i].painted
    /\ \E i \in DOMAIN parade[1].b.cells : parade[1].b.cells[i].painted
    /\ \E i \in DOMAIN vectorscope[1].cells : vectorscope[1].cells[i].painted
    /\ Len(parade[1].calls) = 9

\* the sum of the counters of a map
MapTotal(map) == SumRange(map, 0, Cardinality(DOMAIN map) - 1)

\* the number of values held by a sequence of columns
ValueCount(columns) ==
    SumRange([c \in 1..Len(columns) |-> Len(columns[c])], 1, Len(columns))

\* how many of p - 1, p, p + 1 lie in 0..(size - 1)
InGrid(p, size) == Cardinality({q \in {p - 1, p, p + 1} : q >= 0 /\ q < size})

\* C28: within one render the counters of the intensity map only increase, and
\* every render (each parade channel separately) starts from an all-zero map:
\* the counters of a render add up to the number of increments made for the
\* frame being rendered, whatever was rendered before.
C28_FreshCounters ==
    (analysis # None /\ waveform # None /\ parade # None /\ vectorscope # None) =>
        LET size == canvas.vectorscope
            points == analysis[1].colorPoints
            stamped == [k \in 1..Len(points) |->
                           InGrid(VectorX(points[k].cb, size), size)
                               * InGrid(VectorY(points[k].cr, size), size)]
        IN  /\ \A i \in DOMAIN waveform[1].map : waveform[1].map[i] >= 0
            /\ MapTotal(waveform[1].map) = ValueCount(analysis[1].luminance)
            /\ \A ch \in {"r", "g", "b"} :
                  MapTotal(parade[1][ch].map) = ValueCount(analysis[1].rgbColumns[ch])
            /\ MapTotal(vectorscope[1].map) = SumRange(stamped, 1, Len(points))

\* the render of a second frame, after a different first frame was rendered
\* on the same canvases
C28_Witness ==
    /\ first # None
    /\ first[1].interleaved
    /\ waveform # None
    /\ imageData = Some(Rows(3, 2, Gray, Red))
    /\ first[1].frame = Columns(7, 3, Black, Red, Gray)
    /\ MapTotal(waveform[1].map) = 6

\* the column counts tried against every canvas width
ColumnCounts == 1..64

\* x = floor(col / n * width) and y = floor((height - 1) - (v / 255)(height - 1))
\* on a width x height grid: inside it, bottom row for 0, top row for 255, and
\* never lower for a greater value
PlotsInside(width, height) ==
    /\ \A v \in 0..255 : WaveY(v, height) \in 0..(height - 1)
    /\ WaveY(0, height) = height - 1
    /\ WaveY(255, height) = 0
    /\ \A v \in 0..254 : WaveY(v + 1, height) <= WaveY(v, height)
    /\ \A n \in ColumnCounts : \A col \in 0..(n - 1) :
          FloorMulDiv(col, n, width) \in 0..(width - 1)

\* C29: for every 8-bit value v, canvas height H >= 1, column count n >= 1 and
\* canvas width Wc >= 1, the waveform / parade plot position lies inside the
\* grid, with the bottom row for v = 0, the top row for v = 255 and y
\* non-increasing in v; hence the bounds check never drops a point and the
\* counters of one waveform render sum to width * height of the analysed buffer.
C29_PlotInsideGrid ==
    /\ PlotsInside(canvas.waveform[1], canvas.waveform[2])
    /\ PlotsInside(canvas.parade[1] \div 3, canvas.parade[2])
    /\ (imageData # None /\ waveform # None) =>
          MapTotal(waveform[1].map) = PixelCount

\* white and black pixels plotted on a canvas 1080 rows high: white in the top
\* row, black in the bottom row
C29_Witness ==
    /\ canvas.waveform = <<2, 1080>>
    /\ imageData = Some(Rows(3, 2, White, Black))
    /\ waveform # None
    /\ waveform[1].map[0] = 2
    /\ waveform[1].map[1] = 1
    /\ waveform[1].map[1079 * 2] = 2
    /\ waveform[1].map[1079 * 2 + 1] = 1

\* the three bounds on the number of colour points sampled from n pixels
WithinBudget(count, n) ==
    /\ n < 2 * VectorSampleBudget => count = n
    /\ n >= VectorSampleBudget => count >= VectorSampleBudget
    /\ count <= 2 * VectorSampleBudget - 1

\* C30: the number of sampled colour points equals width * height when
\* width * height is below twice the budget of 50000, is at least the budget
\* whenever width * height reaches it, and never exceeds twice the budget
\* less one.
C30_SampleBudget ==
    /\ (imageData # None /\ analysis # None) =>
          WithinBudget(Len(analysis[1].colorPoints), PixelCount)
    /\ (largeFrame # None /\ largeSampled # None) =>
          WithinBudget(largeSampled[1], largeFrame[1] * largeFrame[2])

\* a frame of 99999 pixels, one short of twice the budget, has been scanned
\* and every pixel of it was sampled
C30_Witness ==
    /\ largeFrame = <<271, 369>>
    /\ largeSampled = Some(2 * VectorSampleBudget - 1)

====
